---- MODULE Spec2Model ----
(***************************************************************************)
(* A model of jvcmd (src/jvcmd/jvcmd.c, src/jvcmd/jvcmd.h): the parse of   *)
(* an argument vector against a declarative configuration.  Tokens are     *)
(* TLA+ strings, a character is a string of length one, a C pointer to a   *)
(* string is a tuple holding zero (NULL) or one string.                    *)
(***************************************************************************)
EXTENDS Integers, Sequences, FiniteSets, TLC

VARIABLES
    config,                       \* jvParsingConfig, the by-value copy of the call
    options,                      \* config.options: sequence of jvArgument
    pos_args,                     \* config.pos_args: sequence of jvArgument
    argv,                         \* the argument vector still to be parsed
    i,                            \* the scan index of the token loop (0-based)
    argument_pos,                 \* the positional cursor
    no_more_options_encountered,  \* TRUE once the terminator was seen
    pc,                           \* position in jvcmd_parse_arguments
    k,                            \* descriptors of the current list already validated
    exit_status,                  \* -1 until exit() is called, then its argument
    message,                      \* what was printed on exit
    consumed,                     \* history: how each loop iteration used its slots
    calls                         \* history: the caller's callbacks invoked so far

vars == << config, options, pos_args, argv, i, argument_pos,
           no_more_options_encountered, pc, k, exit_status, message, consumed, calls >>

(* C pointers to strings. *)

NULL == << >>

Ptr(s) == << s >>

Deref(p) == p[1]

(* The character '\0': no token holds it. *)
NUL == ""

(* StrView.h: sub-views of a string (prefix test, find, split at offset). *)

StrView_make(s) == s

jvstr_equal(a, b) == a = b

jvstr_starts_with(a, prefix) ==
    /\ Len(prefix) <= Len(a)
    /\ SubSeq(a, 1, Len(prefix)) = prefix

(* Index (0-based) of the first c in view, the size of the view if none. *)
jvstr_find(view, c) ==
    IF \E n \in 1..Len(view) : SubSeq(view, n, n) = c
    THEN (CHOOSE n \in 1..Len(view) :
              /\ SubSeq(view, n, n) = c
              /\ \A m \in 1..(n - 1) : SubSeq(view, m, m) # c) - 1
    ELSE Len(view)

(* Cuts view at pos, dropping len characters: the part before pos is
   returned (left), the view becomes what follows pos + len (rest). *)
jvstr_split(view, pos, len) ==
    LET p == IF pos > Len(view) THEN Len(view) ELSE pos
        q == IF p + len > Len(view) THEN Len(view) ELSE p + len
    IN  [left |-> SubSeq(view, 1, p), rest |-> SubSeq(view, q + 1, Len(view))]

(* is_in_space_delimited_list: a do-while over the members of values. *)

RECURSIVE is_in_space_delimited_list(_, _)
(* is_in_space_delimited_list with a slip: a member that begins with the
   value is taken for the value. *)
is_in_list_by_prefix(value, values) ==
    LET values_view == StrView_make(values)
        sp == jvstr_split(values_view, jvstr_find(values_view, " "), 1)
    IN  IF jvstr_starts_with(sp.left, value) THEN TRUE
        ELSE IF Len(sp.rest) > 0 THEN is_in_space_delimited_list(value, sp.rest)
        ELSE FALSE

is_in_space_delimited_list(value, values) ==
    LET values_view == StrView_make(values)
        sp == jvstr_split(values_view, jvstr_find(values_view, " "), 1)
    IN  IF jvstr_equal(value, sp.left) THEN TRUE
        ELSE IF Len(sp.rest) > 0 THEN is_in_space_delimited_list(value, sp.rest)
        ELSE FALSE


(* <ctype.h> isspace, and the digits of strtol/strtof. *)

SpaceChars == {" ", "\t", "\n", "\r", "\f"}

DigitValue ==
    [c \in {"0", "1", "2", "3", "4", "5", "6", "7", "8", "9",
            "a", "b", "c", "d", "e", "f", "A", "B", "C", "D", "E", "F"} |->
        CASE c = "0" -> 0 [] c = "1" -> 1 [] c = "2" -> 2 [] c = "3" -> 3
          [] c = "4" -> 4 [] c = "5" -> 5 [] c = "6" -> 6 [] c = "7" -> 7
          [] c = "8" -> 8 [] c = "9" -> 9
          [] c \in {"a", "A"} -> 10 [] c \in {"b", "B"} -> 11
          [] c \in {"c", "C"} -> 12 [] c \in {"d", "D"} -> 13
          [] c \in {"e", "E"} -> 14 [] c \in {"f", "F"} -> 15]

IsDigitIn(c, base) == c \in DOMAIN DigitValue /\ DigitValue[c] < base

CharAt(s, n) == IF n >= 1 /\ n <= Len(s) THEN SubSeq(s, n, n) ELSE NUL

DigitsIn(base) == {c \in DOMAIN DigitValue : DigitValue[c] < base}

(* Number of leading characters of s, from position p on, that are in set. *)
RECURSIVE SpanFrom(_, _, _)
SpanFrom(s, p, set) ==
    IF p <= Len(s) /\ SubSeq(s, p, p) \in set THEN 1 + SpanFrom(s, p + 1, set) ELSE 0

RECURSIVE DigitsOf(_)
DigitsOf(s) ==
    IF s = "" THEN << >> ELSE << DigitValue[Head(s)] >> \o DigitsOf(Tail(s))

RECURSIVE StripZeros(_)
StripZeros(d) == IF d # << >> /\ Head(d) = 0 THEN StripZeros(Tail(d)) ELSE d

(* Magnitudes as digit sequences (most significant first, no leading zero):
   -1, 0, 1 as a is below, equal to, above b. *)
RECURSIVE CmpLex(_, _)
CmpLex(a, b) ==
    IF a = << >> THEN 0
    ELSE IF Head(a) < Head(b) THEN -1
    ELSE IF Head(a) > Head(b) THEN 1
    ELSE CmpLex(Tail(a), Tail(b))

CmpDigits(a, b) ==
    IF Len(a) < Len(b) THEN -1 ELSE IF Len(a) > Len(b) THEN 1 ELSE CmpLex(a, b)

(* <limits.h>: INT_MAX, and the magnitudes of INT_MAX, INT_MIN, LONG_MAX and
   LONG_MIN (int of 32 bits, long of 64 bits) written in base 8, 10 and 16. *)
INT_MAX == 2147483647

INT_MIN == -INT_MAX - 1

IntMaxDigits(base) ==
    CASE base = 10 -> << 2, 1, 4, 7, 4, 8, 3, 6, 4, 7 >>
      [] base = 16 -> [n \in 1..8 |-> IF n = 1 THEN 7 ELSE 15]
      [] base = 8 -> [n \in 1..11 |-> IF n = 1 THEN 1 ELSE 7]

IntMinDigits(base) ==
    CASE base = 10 -> << 2, 1, 4, 7, 4, 8, 3, 6, 4, 8 >>
      [] base = 16 -> [n \in 1..8 |-> IF n = 1 THEN 8 ELSE 0]
      [] base = 8 -> [n \in 1..11 |-> IF n = 1 THEN 2 ELSE 0]

LongMaxDigits(base) ==
    CASE base = 10 -> << 9, 2, 2, 3, 3, 7, 2, 0, 3, 6, 8, 5, 4, 7, 7, 5, 8, 0, 7 >>
      [] base = 16 -> [n \in 1..16 |-> IF n = 1 THEN 7 ELSE 15]
      [] base = 8 -> [n \in 1..21 |-> 7]

LongMinDigits(base) ==
    CASE base = 10 -> << 9, 2, 2, 3, 3, 7, 2, 0, 3, 6, 8, 5, 4, 7, 7, 5, 8, 0, 8 >>
      [] base = 16 -> [n \in 1..16 |-> IF n = 1 THEN 8 ELSE 0]
      [] base = 8 -> [n \in 1..22 |-> IF n = 1 THEN 1 ELSE 0]

(* -(the number written by digits d), accumulated below zero so that the
   magnitude of INT_MIN is representable. *)
RECURSIVE NegValue(_, _, _)
NegValue(d, base, acc) ==
    IF d = << >> THEN acc ELSE NegValue(Tail(d), base, acc * base - Head(d))

(* strtol(s, &end, 0).  end: the number of characters consumed (0: no
   conversion, end == begin); erange: errno == ERANGE; big: -1, 0, 1 as the
   long result is below INT_MIN, an int, above INT_MAX; val: the result when
   big = 0.  The steps: white space and sign, the base, the digits, the
   value. *)
StrtolValue(neg, base, end, mag) ==
    LET erange == IF neg THEN CmpDigits(mag, LongMinDigits(base)) > 0
                  ELSE CmpDigits(mag, LongMaxDigits(base)) > 0
        big == IF neg
               THEN (IF CmpDigits(mag, IntMinDigits(base)) > 0 THEN -1 ELSE 0)
               ELSE (IF CmpDigits(mag, IntMaxDigits(base)) > 0 THEN 1 ELSE 0)
    IN  [end |-> end, erange |-> erange, big |-> big,
         val |-> IF big # 0 THEN 0
                 ELSE IF neg THEN NegValue(mag, base, 0)
                 ELSE -NegValue(mag, base, 0)]

StrtolDigits(s, neg, base, q, n) ==
    IF n = 0 THEN [end |-> 0, erange |-> FALSE, big |-> 0, val |-> 0]
    ELSE StrtolValue(neg, base, q + n, StripZeros(DigitsOf(SubSeq(s, q + 1, q + n))))

StrtolBase(s, neg, p) ==
    IF /\ CharAt(s, p + 1) = "0"
       /\ CharAt(s, p + 2) \in {"x", "X"}
       /\ IsDigitIn(CharAt(s, p + 3), 16)
    THEN StrtolDigits(s, neg, 16, p + 2, SpanFrom(s, p + 3, DigitsIn(16)))
    ELSE IF CharAt(s, p + 1) = "0"
    THEN StrtolDigits(s, neg, 8, p, SpanFrom(s, p + 1, DigitsIn(8)))
    ELSE StrtolDigits(s, neg, 10, p, SpanFrom(s, p + 1, DigitsIn(10)))

StrtolSign(s, w) ==
    StrtolBase(s, CharAt(s, w + 1) = "-",
               IF CharAt(s, w + 1) \in {"-", "+"} THEN w + 1 ELSE w)

strtol(s) == StrtolSign(s, SpanFrom(s, 1, SpaceChars))

(* value > bound and value < bound for a long value and an int bound. *)
LongGreater(v, bound) == v.big = 1 \/ (v.big = 0 /\ v.val > bound)

LongLess(v, bound) == v.big = -1 \/ (v.big = 0 /\ v.val < bound)

(* float values: kind "fin" is the decimal m * 10^(-e); "inf" has the sign
   of m; "nan" compares FALSE with everything. *)
Dec(m, e) == [kind |-> "fin", m |-> m, e |-> e]

RECURSIVE Pow10(_)
Pow10(n) == IF n <= 0 THEN 1 ELSE 10 * Pow10(n - 1)

FloatLess(a, b) ==
    CASE a.kind = "nan" \/ b.kind = "nan" -> FALSE
      [] a.kind = "inf" /\ b.kind = "inf" -> a.m < b.m
      [] a.kind = "inf" -> a.m < 0
      [] b.kind = "inf" -> b.m > 0
      [] OTHER -> a.m * Pow10(b.e - a.e) < b.m * Pow10(a.e - b.e)

FloatEqual(a, b) ==
    CASE a.kind = "nan" \/ b.kind = "nan" -> FALSE
      [] a.kind = "inf" \/ b.kind = "inf" -> a.kind = b.kind /\ a.m = b.m
      [] OTHER -> a.m * Pow10(b.e - a.e) = b.m * Pow10(a.e - b.e)

ToLower(c) ==
    CASE c = "I" -> "i" [] c = "N" -> "n" [] c = "F" -> "f" [] c = "A" -> "a"
      [] c = "T" -> "t" [] c = "Y" -> "y" [] OTHER -> c

RECURSIVE LowerOf(_)
LowerOf(s) == IF s = "" THEN "" ELSE ToLower(Head(s)) \o LowerOf(Tail(s))

(* strtof(s, &end) on decimal literals, "inf"/"infinity" and "nan".  end as
   for strtol.  The steps: white space and sign, the digits and the
   fraction, the exponent, the value. *)
StrtofValue(sgn, digs, nf, end, ex) ==
    [end |-> end, value |-> Dec(sgn * (-NegValue(StripZeros(digs), 10, 0)), nf - ex)]

StrtofExponent(s, sgn, digs, nf, q, ep, ne) ==
    IF ne = 0 THEN StrtofValue(sgn, digs, nf, q, 0)
    ELSE StrtofValue(sgn, digs, nf, ep + ne,
                     (IF CharAt(s, q + 2) = "-" THEN -1 ELSE 1)
                     * (-NegValue(DigitsOf(SubSeq(s, ep + 1, ep + ne)), 10, 0)))

StrtofMantissa(s, sgn, digs, nf, q) ==
    IF ~(CharAt(s, q + 1) \in {"e", "E"}) THEN StrtofValue(sgn, digs, nf, q, 0)
    ELSE IF CharAt(s, q + 2) \in {"-", "+"}
    THEN StrtofExponent(s, sgn, digs, nf, q, q + 2, SpanFrom(s, q + 3, DigitsIn(10)))
    ELSE StrtofExponent(s, sgn, digs, nf, q, q + 1, SpanFrom(s, q + 2, DigitsIn(10)))

StrtofWord(sgn, p, word) ==
    IF jvstr_starts_with(word, "infinity")
    THEN [end |-> p + 8, value |-> [kind |-> "inf", m |-> sgn, e |-> 0]]
    ELSE IF jvstr_starts_with(word, "inf")
    THEN [end |-> p + 3, value |-> [kind |-> "inf", m |-> sgn, e |-> 0]]
    ELSE IF jvstr_starts_with(word, "nan")
    THEN [end |-> p + 3, value |-> [kind |-> "nan", m |-> 0, e |-> 0]]
    ELSE [end |-> 0, value |-> Dec(0, 0)]

StrtofFraction(s, sgn, p, ni, nf) ==
    IF ni + nf = 0 THEN StrtofWord(sgn, p, LowerOf(SubSeq(s, p + 1, Len(s))))
    ELSE StrtofMantissa(s, sgn,
                        DigitsOf(SubSeq(s, p + 1, p + ni)) \o
                        DigitsOf(SubSeq(s, p + ni + 2, p + ni + 1 + nf)),
                        nf,
                        IF CharAt(s, p + ni + 1) = "." THEN p + ni + 1 + nf ELSE p + ni)

StrtofDigits(s, sgn, p, ni) ==
    StrtofFraction(s, sgn, p, ni,
                   IF CharAt(s, p + ni + 1) = "."
                   THEN SpanFrom(s, p + ni + 2, DigitsIn(10)) ELSE 0)

StrtofSign(s, w) ==
    StrtofDigits(s, IF CharAt(s, w + 1) = "-" THEN -1 ELSE 1,
                 IF CharAt(s, w + 1) \in {"-", "+"} THEN w + 1 ELSE w,
                 SpanFrom(s, (IF CharAt(s, w + 1) \in {"-", "+"} THEN w + 1 ELSE w) + 1,
                          DigitsIn(10)))

strtof(s) == StrtofSign(s, SpanFrom(s, 1, SpaceChars))

(* jvArgument with every field zero-initialized (help and userdata, which
   the parse never reads, are left out).  action: TRUE for a non-NULL
   callback. *)
ZeroArg ==
    [name |-> "", short_name |-> NUL, required |-> FALSE, need_value |-> FALSE,
     is_int |-> FALSE, is_float |-> FALSE, is_bool |-> FALSE,
     float_min |-> Dec(0, 0), float_max |-> Dec(0, 0), int_min |-> 0, int_max |-> 0,
     allowed_values |-> NULL, default_value |-> NULL, action |-> FALSE,
     value |-> NULL, specified |-> FALSE,
     as_int |-> 0, as_float |-> Dec(0, 0), as_bool |-> FALSE]

(* jvParsingConfig with every field zero-initialized (description, usage,
   epilog and userdata left out; options and pos_args are the variables of
   these names).  action_extra_value: TRUE for a non-NULL callback. *)
ZeroConfig ==
    [no_help |-> FALSE, stops_at_last_pos |-> FALSE, program_name |-> NULL,
     short_options_prefix |-> NULL, options_prefix |-> NULL, no_more_options |-> NULL,
     nb_pos_args_required |-> 0, true_synonyms |-> NULL, false_synonyms |-> NULL,
     action_extra_value |-> FALSE]

(* The state of one call of jvcmd_parse_arguments, as a record. *)
St ==
    [config |-> config, options |-> options, pos_args |-> pos_args, argv |-> argv,
     i |-> i, argument_pos |-> argument_pos,
     no_more_options_encountered |-> no_more_options_encountered,
     pc |-> pc, k |-> k, exit_status |-> exit_status, message |-> message,
     consumed |-> consumed, calls |-> calls]

Set(s) ==
    /\ config' = s.config
    /\ options' = s.options
    /\ pos_args' = s.pos_args
    /\ argv' = s.argv
    /\ i' = s.i
    /\ argument_pos' = s.argument_pos
    /\ no_more_options_encountered' = s.no_more_options_encountered
    /\ pc' = s.pc
    /\ k' = s.k
    /\ exit_status' = s.exit_status
    /\ message' = s.message
    /\ consumed' = s.consumed
    /\ calls' = s.calls

Exited(s) == s.exit_status # -1

(* jvcmd_exit_with_help: prints the help, exit(0). *)
jvcmd_exit_with_help(s) == [s EXCEPT !.exit_status = 0, !.message = "help"]

(* jvcmd_exit_with_error: prints the error, exit(1).  kind names the
   message (the taxonomy of error messages of jvcmd.c). *)
jvcmd_exit_with_error(s, kind) == [s EXCEPT !.exit_status = 1, !.message = kind]

(* argv[0] and argv[1] of the vector argv + i. *)
Argv0(s) == s.argv[s.i + 1]

Argv1(s) == IF s.i + 2 <= Len(s.argv) THEN Ptr(s.argv[s.i + 2]) ELSE NULL

(* The first descriptor of list that satisfies the loop's test, 0 if the
   loop reaches the terminating NULL. *)
FirstByName(list, arg) ==
    IF \E n \in 1..Len(list) : jvstr_equal(arg, StrView_make(list[n].name))
    THEN CHOOSE n \in 1..Len(list) :
            /\ jvstr_equal(arg, StrView_make(list[n].name))
            /\ \A m \in 1..(n - 1) : ~jvstr_equal(arg, StrView_make(list[m].name))
    ELSE 0

FirstByShortName(list, c) ==
    IF \E n \in 1..Len(list) : c = list[n].short_name
    THEN CHOOSE n \in 1..Len(list) :
            /\ c = list[n].short_name
            /\ \A m \in 1..(n - 1) : c # list[m].short_name
    ELSE 0

(* check_long_options: [s: the state after the call, ret: the number of
   argv used]; a call that exits leaves Exited(s). *)
(* LongFound with a slip: a flag given in long form is not marked. *)
LongFoundForgetsFlag(s, n) ==
    IF n = 0
    THEN [s |-> jvcmd_exit_with_error(s, "UnknownOption"), ret |-> 0]
    ELSE IF s.options[n].need_value
    THEN IF Argv1(s) = NULL
         THEN [s |-> jvcmd_exit_with_error([s EXCEPT !.options[n].specified = TRUE],
                                           "MissingOptionValue"),
               ret |-> 0]
         ELSE [s |-> [s EXCEPT !.options[n].specified = TRUE,
                               !.options[n].value = Argv1(s)],
               ret |-> 2]
    ELSE [s |-> [s EXCEPT !.options[n].value = Ptr("")], ret |-> 1]

(* LongFound with a slip: a following token that begins with the short
   prefix is not taken as the value. *)
LongFoundRefusesOptionAsValue(s, n) ==
    IF n = 0
    THEN [s |-> jvcmd_exit_with_error(s, "UnknownOption"), ret |-> 0]
    ELSE IF s.options[n].need_value
    THEN IF Argv1(s) = NULL
            \/ jvstr_starts_with(Deref(Argv1(s)), Deref(s.config.short_options_prefix))
         THEN [s |-> jvcmd_exit_with_error([s EXCEPT !.options[n].specified = TRUE],
                                           "MissingOptionValue"),
               ret |-> 0]
         ELSE [s |-> [s EXCEPT !.options[n].specified = TRUE,
                               !.options[n].value = Argv1(s)],
               ret |-> 2]
    ELSE [s |-> [s EXCEPT !.options[n].specified = TRUE,
                          !.options[n].value = Ptr("")],
          ret |-> 1]

LongFound(s, n) ==
    IF n = 0
    THEN [s |-> jvcmd_exit_with_error(s, "UnknownOption"), ret |-> 0]
    ELSE IF s.options[n].need_value
    THEN IF Argv1(s) = NULL
         THEN [s |-> jvcmd_exit_with_error([s EXCEPT !.options[n].specified = TRUE],
                                           "MissingOptionValue"),
               ret |-> 0]
         ELSE [s |-> [s EXCEPT !.options[n].specified = TRUE,
                               !.options[n].value = Argv1(s)],
               ret |-> 2]
    ELSE [s |-> [s EXCEPT !.options[n].specified = TRUE,
                          !.options[n].value = Ptr("")],
          ret |-> 1]

(* LongNamed with a slip: no_help also suppresses the attribution. *)
LongNamedSuppressible(s, arg) ==
    IF ~s.config.no_help /\ jvstr_equal(arg, "jvcmd")
    THEN [s |-> [s EXCEPT !.exit_status = 0, !.message = "attribution"], ret |-> 0]
    ELSE IF ~s.config.no_help /\ jvstr_equal(arg, "help")
    THEN [s |-> jvcmd_exit_with_help(s), ret |-> 0]
    ELSE LongFound(s, FirstByName(s.options, arg))

LongNamed(s, arg) ==
    IF jvstr_equal(arg, "jvcmd")
    THEN [s |-> [s EXCEPT !.exit_status = 0, !.message = "attribution"], ret |-> 0]
    ELSE IF ~s.config.no_help /\ jvstr_equal(arg, "help")
    THEN [s |-> jvcmd_exit_with_help(s), ret |-> 0]
    ELSE LongFound(s, FirstByName(s.options, arg))

check_long_options(s, prefix) ==
    IF ~jvstr_starts_with(StrView_make(Argv0(s)), prefix) THEN [s |-> s, ret |-> 0]
    ELSE LongNamed(s, jvstr_split(StrView_make(Argv0(s)), 0, Len(prefix)).rest)

(* check_short_options: the while loop over arg, the rest of the run; c is
   its first character, n the option found for c, rest what follows c. *)
RECURSIVE ShortRun(_, _, _)
(* ShortFound with a slip: the scan of the run stops after the first flag. *)
ShortFoundStopsAfterFlag(s, n, rest, chained_short_names) ==
    IF n = 0
    THEN [s |-> jvcmd_exit_with_error(s, "UnknownOption"), ret |-> 0]
    ELSE IF s.options[n].need_value
    THEN IF Len(rest) > 0
         THEN [s |-> [s EXCEPT !.options[n].specified = TRUE,
                               !.options[n].value = Ptr(rest)],
               ret |-> 1]
         ELSE IF Argv1(s) = NULL
         THEN [s |-> jvcmd_exit_with_error([s EXCEPT !.options[n].specified = TRUE],
                                           "MissingOptionValue"),
               ret |-> 0]
         ELSE [s |-> [s EXCEPT !.options[n].specified = TRUE,
                               !.options[n].value = Argv1(s)],
               ret |-> 2]
    ELSE [s |-> [s EXCEPT !.options[n].specified = TRUE,
                          !.options[n].value = Ptr("")],
          ret |-> 1]

(* ShortFound with a slip: a value option is accepted after a flag. *)
ShortFoundAllowsChain(s, n, rest, chained_short_names) ==
    IF n = 0
    THEN [s |-> jvcmd_exit_with_error(s, "UnknownOption"), ret |-> 0]
    ELSE IF s.options[n].need_value
    THEN IF Len(rest) > 0
         THEN [s |-> [s EXCEPT !.options[n].specified = TRUE,
                               !.options[n].value = Ptr(rest)],
               ret |-> 1]
         ELSE IF Argv1(s) = NULL
         THEN [s |-> jvcmd_exit_with_error([s EXCEPT !.options[n].specified = TRUE],
                                           "MissingOptionValue"),
               ret |-> 0]
         ELSE [s |-> [s EXCEPT !.options[n].specified = TRUE,
                               !.options[n].value = Argv1(s)],
               ret |-> 2]
    ELSE ShortRun([s EXCEPT !.options[n].specified = TRUE,
                            !.options[n].value = Ptr("")],
                  rest, TRUE)

(* ShortFound with a slip: the rest of the token is never taken as the
   value, its characters are scanned as further short names. *)
ShortFoundIgnoresRest(s, n, rest, chained_short_names) ==
    IF n = 0
    THEN [s |-> jvcmd_exit_with_error(s, "UnknownOption"), ret |-> 0]
    ELSE IF s.options[n].need_value
    THEN IF chained_short_names
         THEN [s |-> jvcmd_exit_with_error([s EXCEPT !.options[n].specified = TRUE],
                                           "ChainedOptionNeedsValue"),
               ret |-> 0]
         ELSE IF Len(rest) > 0
         THEN ShortRun([s EXCEPT !.options[n].specified = TRUE,
                                 !.options[n].value = Ptr("")],
                       rest, FALSE)
         ELSE IF Argv1(s) = NULL
         THEN [s |-> jvcmd_exit_with_error([s EXCEPT !.options[n].specified = TRUE],
                                           "MissingOptionValue"),
               ret |-> 0]
         ELSE [s |-> [s EXCEPT !.options[n].specified = TRUE,
                               !.options[n].value = Argv1(s)],
               ret |-> 2]
    ELSE ShortRun([s EXCEPT !.options[n].specified = TRUE,
                            !.options[n].value = Ptr("")],
                  rest, TRUE)

(* ShortFound with a slip: a character that names no option hands the
   token back as not an option. *)
ShortFoundUnknownIsPositional(s, n, rest, chained_short_names) ==
    IF n = 0
    THEN [s |-> s, ret |-> 0]
    ELSE IF s.options[n].need_value
    THEN IF chained_short_names
         THEN [s |-> jvcmd_exit_with_error([s EXCEPT !.options[n].specified = TRUE],
                                           "ChainedOptionNeedsValue"),
               ret |-> 0]
         ELSE IF Len(rest) > 0
         THEN [s |-> [s EXCEPT !.options[n].specified = TRUE,
                               !.options[n].value = Ptr(rest)],
               ret |-> 1]
         ELSE IF Argv1(s) = NULL
         THEN [s |-> jvcmd_exit_with_error([s EXCEPT !.options[n].specified = TRUE],
                                           "MissingOptionValue"),
               ret |-> 0]
         ELSE [s |-> [s EXCEPT !.options[n].specified = TRUE,
                               !.options[n].value = Argv1(s)],
               ret |-> 2]
    ELSE ShortRun([s EXCEPT !.options[n].specified = TRUE,
                            !.options[n].value = Ptr("")],
                  rest, TRUE)

ShortFound(s, n, rest, chained_short_names) ==
    IF n = 0
    THEN [s |-> jvcmd_exit_with_error(s, "UnknownOption"), ret |-> 0]
    ELSE IF s.options[n].need_value
    THEN IF chained_short_names
         THEN [s |-> jvcmd_exit_with_error([s EXCEPT !.options[n].specified = TRUE],
                                           "ChainedOptionNeedsValue"),
               ret |-> 0]
         ELSE IF Len(rest) > 0
         THEN [s |-> [s EXCEPT !.options[n].specified = TRUE,
                               !.options[n].value = Ptr(rest)],
               ret |-> 1]
         ELSE IF Argv1(s) = NULL
         THEN [s |-> jvcmd_exit_with_error([s EXCEPT !.options[n].specified = TRUE],
                                           "MissingOptionValue"),
               ret |-> 0]
         ELSE [s |-> [s EXCEPT !.options[n].specified = TRUE,
                               !.options[n].value = Argv1(s)],
               ret |-> 2]
    ELSE ShortRun([s EXCEPT !.options[n].specified = TRUE,
                            !.options[n].value = Ptr("")],
                  rest, TRUE)

(* ShortRun with a slip: the declared short names are looked up before
   the help character. *)
ShortRunDeclaredFirst(s, arg, chained_short_names) ==
    IF ~(Len(arg) > 0) THEN [s |-> s, ret |-> 1]
    ELSE IF FirstByShortName(s.options, SubSeq(arg, 1, 1)) # 0
    THEN ShortFound(s, FirstByShortName(s.options, SubSeq(arg, 1, 1)),
                    jvstr_split(arg, 0, 1).rest, chained_short_names)
    ELSE IF ~s.config.no_help /\ SubSeq(arg, 1, 1) = "h"
    THEN [s |-> jvcmd_exit_with_help(s), ret |-> 0]
    ELSE ShortFound(s, 0, jvstr_split(arg, 0, 1).rest, chained_short_names)

ShortRun(s, arg, chained_short_names) ==
    IF ~(Len(arg) > 0) THEN [s |-> s, ret |-> 1]
    ELSE IF ~s.config.no_help /\ SubSeq(arg, 1, 1) = "h"
    THEN [s |-> jvcmd_exit_with_help(s), ret |-> 0]
    ELSE ShortFound(s, FirstByShortName(s.options, SubSeq(arg, 1, 1)),
                    jvstr_split(arg, 0, 1).rest, chained_short_names)

(* check_short_options with a slip: a token that is the bare prefix is
   handed back as not an option. *)
check_short_options_skips_bare_prefix(s, prefix) ==
    IF ~jvstr_starts_with(StrView_make(Argv0(s)), prefix) \/ Argv0(s) = prefix
    THEN [s |-> s, ret |-> 0]
    ELSE ShortRun(s, jvstr_split(StrView_make(Argv0(s)), 0, Len(prefix)).rest, FALSE)

check_short_options(s, prefix) ==
    IF ~jvstr_starts_with(StrView_make(Argv0(s)), prefix) THEN [s |-> s, ret |-> 0]
    ELSE ShortRun(s, jvstr_split(StrView_make(Argv0(s)), 0, Len(prefix)).rest, FALSE)

(* check_options: the long prefix first, then the short one. *)
OptionsAfterLong(s, short_prefix, long) ==
    IF Exited(long.s) \/ long.ret > 0 THEN long
    ELSE IF Len(short_prefix) > 0 THEN check_short_options(s, short_prefix)
    ELSE [s |-> s, ret |-> 0]

check_options(s, short_prefix, long_prefix) ==
    OptionsAfterLong(s, short_prefix,
                     IF Len(long_prefix) > 0 THEN check_long_options(s, long_prefix)
                     ELSE [s |-> s, ret |-> 0])

(* ConvDefault with a slip: required is tested before the default. *)
ConvDefaultRequiredFirst(arg) ==
    IF arg.specified THEN [arg |-> arg, err |-> "none", skip |-> FALSE]
    ELSE IF arg.required
    THEN [arg |-> arg, err |-> "MissingRequiredOption", skip |-> FALSE]
    ELSE IF arg.need_value /\ arg.default_value # NULL
    THEN [arg |-> [arg EXCEPT !.value = arg.default_value, !.specified = TRUE],
          err |-> "none", skip |-> FALSE]
    ELSE [arg |-> arg, err |-> "none", skip |-> TRUE]

(* ConvDefault with a slip: the default is written over a given value. *)
ConvDefaultOverwrites(arg) ==
    IF arg.need_value /\ arg.default_value # NULL
    THEN [arg |-> [arg EXCEPT !.value = arg.default_value, !.specified = TRUE],
          err |-> "none", skip |-> FALSE]
    ELSE IF arg.specified THEN [arg |-> arg, err |-> "none", skip |-> FALSE]
    ELSE IF arg.required
    THEN [arg |-> arg, err |-> "MissingRequiredOption", skip |-> FALSE]
    ELSE [arg |-> arg, err |-> "none", skip |-> TRUE]

(* ConvDefault with a slip: the default is stored, the descriptor is not
   marked. *)
ConvDefaultLeavesUnspecified(arg) ==
    IF arg.specified THEN [arg |-> arg, err |-> "none", skip |-> FALSE]
    ELSE IF arg.need_value /\ arg.default_value # NULL
    THEN [arg |-> [arg EXCEPT !.value = arg.default_value],
          err |-> "none", skip |-> FALSE]
    ELSE IF arg.required
    THEN [arg |-> arg, err |-> "MissingRequiredOption", skip |-> FALSE]
    ELSE [arg |-> arg, err |-> "none", skip |-> TRUE]

(* check_convert_value, lines 295-304: the default of an unspecified
   descriptor.  [arg, err: the fatal error or "none", skip: the early return]. *)
ConvDefault(arg) ==
    IF arg.specified THEN [arg |-> arg, err |-> "none", skip |-> FALSE]
    ELSE IF arg.need_value /\ arg.default_value # NULL
    THEN [arg |-> [arg EXCEPT !.value = arg.default_value, !.specified = TRUE],
          err |-> "none", skip |-> FALSE]
    ELSE IF arg.required
    THEN [arg |-> arg, err |-> "MissingRequiredOption", skip |-> FALSE]
    ELSE [arg |-> arg, err |-> "none", skip |-> TRUE]

(* Lines 306-313: the allowed values. *)
ConvAllowed(arg) ==
    IF arg.allowed_values # NULL
       /\ ~is_in_space_delimited_list(StrView_make(Deref(arg.value)),
                                      Deref(arg.allowed_values))
    THEN [arg |-> arg, err |-> "InvalidEnumValue"]
    ELSE [arg |-> arg, err |-> "none"]

(* IntChecked with a slip: the upper bound is refused. *)
IntCheckedBelowMax(arg, int_min, int_max, value) ==
    IF value.end = 0 THEN [arg |-> arg, err |-> "InvalidInteger"]
    ELSE IF value.erange \/ LongGreater(value, int_max - 1) \/ LongLess(value, int_min)
    THEN [arg |-> arg, err |-> "IntegerOutOfRange"]
    ELSE [arg |-> [arg EXCEPT !.as_int = value.val], err |-> "none"]

(* Lines 316-330: is_int; value is strtol's result. *)
IntChecked(arg, int_min, int_max, value) ==
    IF value.end = 0 THEN [arg |-> arg, err |-> "InvalidInteger"]
    ELSE IF value.erange \/ LongGreater(value, int_max) \/ LongLess(value, int_min)
    THEN [arg |-> arg, err |-> "IntegerOutOfRange"]
    ELSE [arg |-> [arg EXCEPT !.as_int = value.val], err |-> "none"]

ConvInt(arg) ==
    IF ~arg.is_int THEN [arg |-> arg, err |-> "none"]
    ELSE IntChecked(arg,
                    IF arg.int_min = arg.int_max THEN INT_MIN ELSE arg.int_min,
                    IF arg.int_min = arg.int_max THEN INT_MAX ELSE arg.int_max,
                    strtol(Deref(arg.value)))

(* Lines 331-339: is_float; value is strtof's result. *)
FloatChecked(arg, value) ==
    IF /\ ~FloatEqual(arg.float_min, arg.float_max)
       /\ (FloatLess(value, arg.float_min) \/ FloatLess(arg.float_max, value))
    THEN [arg |-> arg, err |-> "FloatOutOfRange"]
    ELSE [arg |-> [arg EXCEPT !.as_float = value], err |-> "none"]

ConvFloat(arg) ==
    IF ~arg.is_float THEN [arg |-> arg, err |-> "none"]
    ELSE FloatChecked(arg, strtof(Deref(arg.value)).value)

(* BoolChecked with a slip: as_bool is written from is_false. *)
BoolCheckedSwapped(arg, is_false, is_true) ==
    IF ~is_false /\ ~is_true THEN [arg |-> arg, err |-> "InvalidBoolean"]
    ELSE [arg |-> [arg EXCEPT !.as_bool = is_false], err |-> "none"]

(* Lines 340-349: is_bool. *)
BoolChecked(arg, is_false, is_true) ==
    IF ~is_false /\ ~is_true THEN [arg |-> arg, err |-> "InvalidBoolean"]
    ELSE [arg |-> [arg EXCEPT !.as_bool = is_true], err |-> "none"]

ConvBool(cfg, arg) ==
    IF ~arg.is_bool THEN [arg |-> arg, err |-> "none"]
    ELSE BoolChecked(arg,
                     is_in_space_delimited_list(StrView_make(Deref(arg.value)),
                                                Deref(cfg.false_synonyms)),
                     is_in_space_delimited_list(StrView_make(Deref(arg.value)),
                                                Deref(cfg.true_synonyms)))

(* check_convert_value: [arg: the descriptor after the call, err: the fatal
   error it exits with or "none", acted: whether arg->action was called].
   Each step takes the result r of the step before it. *)
ConvDone(r) ==
    [arg |-> r.arg, err |-> r.err, acted |-> r.err = "none" /\ r.arg.action]

ConvAfterFloat(cfg, r) ==
    IF r.err # "none" THEN ConvDone(r) ELSE ConvDone(ConvBool(cfg, r.arg))

ConvAfterInt(cfg, r) ==
    IF r.err # "none" THEN ConvDone(r) ELSE ConvAfterFloat(cfg, ConvFloat(r.arg))

ConvAfterAllowed(cfg, r) ==
    IF r.err # "none" THEN ConvDone(r) ELSE ConvAfterInt(cfg, ConvInt(r.arg))

(* ConvAfterDefault with a slip: the callback also runs for a descriptor
   that is left unspecified. *)
ConvAfterDefaultAlwaysActs(cfg, r) ==
    IF r.err # "none" THEN [arg |-> r.arg, err |-> r.err, acted |-> FALSE]
    ELSE IF r.skip THEN [arg |-> r.arg, err |-> "none", acted |-> r.arg.action]
    ELSE IF ~r.arg.need_value THEN ConvDone(r)
    ELSE ConvAfterAllowed(cfg, ConvAllowed(r.arg))

ConvAfterDefault(cfg, r) ==
    IF r.err # "none" THEN [arg |-> r.arg, err |-> r.err, acted |-> FALSE]
    ELSE IF r.skip THEN [arg |-> r.arg, err |-> "none", acted |-> FALSE]
    ELSE IF ~r.arg.need_value THEN ConvDone(r)
    ELSE ConvAfterAllowed(cfg, ConvAllowed(r.arg))

check_convert_value(cfg, arg) == ConvAfterDefault(cfg, ConvDefault(arg))

(* set_actual_need_value. *)
set_actual_need_value(arg) ==
    [arg EXCEPT !.need_value = \/ arg.need_value
                               \/ arg.is_int
                               \/ arg.is_float
                               \/ arg.is_bool
                               \/ arg.allowed_values # NULL]

SET_IF_NULL(var, value) == IF var = NULL THEN Ptr(value) ELSE var

(* jvcmd_parse_arguments, lines 362-386: the program name, the defaults of
   the configuration, need_value of every descriptor, the loop's locals. *)
ParseBegin(s) ==
    [s EXCEPT
        !.config = [s.config EXCEPT
            !.program_name = IF @ # NULL THEN @ ELSE Ptr(Head(s.argv)),
            !.short_options_prefix = SET_IF_NULL(@, "-"),
            !.options_prefix = SET_IF_NULL(@, "--"),
            !.no_more_options = SET_IF_NULL(@, "--"),
            !.true_synonyms = SET_IF_NULL(@, "1 true True TRUE y Y yes Yes YES"),
            !.false_synonyms = SET_IF_NULL(@, "0 false False FALSE n N no No NO")],
        !.argv = IF s.config.program_name # NULL THEN @ ELSE Tail(@),
        !.options = [n \in 1..Len(s.options) |-> set_actual_need_value(s.options[n])],
        !.pos_args = [n \in 1..Len(s.pos_args) |-> set_actual_need_value(s.pos_args[n])],
        !.i = 0,
        !.argument_pos = 0,
        !.no_more_options_encountered = FALSE,
        !.pc = IF 0 < Len(s.argv) - (IF s.config.program_name # NULL THEN 0 ELSE 1)
               THEN "scan" ELSE "count"]

(* ParsePositional with a slip: the cursor stays on the slot it bound. *)
ParsePositionalRebinds(s) ==
    IF s.argument_pos >= Len(s.pos_args)
    THEN IF ~s.config.action_extra_value
         THEN [s |-> jvcmd_exit_with_error(s, "UnexpectedExtraArgument"),
               ret |-> 0, stop |-> FALSE]
         ELSE [s |-> [s EXCEPT !.calls = Append(@, [fn |-> "action_extra_value",
                                                    arg |-> Argv0(s)]),
                               !.argument_pos = @ + 1],
               ret |-> 1,
               stop |-> s.config.stops_at_last_pos
                        /\ s.argument_pos + 1 = Len(s.pos_args)]
    ELSE [s |-> [s EXCEPT !.pos_args[s.argument_pos + 1].specified = TRUE,
                          !.pos_args[s.argument_pos + 1].value = Ptr(Argv0(s))],
          ret |-> 1,
          stop |-> s.config.stops_at_last_pos
                   /\ s.argument_pos + 1 = Len(s.pos_args)]

(* ParsePositional with a slip: the break of line 411 is never taken. *)
ParsePositionalNeverStops(s) ==
    IF s.argument_pos >= Len(s.pos_args)
    THEN IF ~s.config.action_extra_value
         THEN [s |-> jvcmd_exit_with_error(s, "UnexpectedExtraArgument"),
               ret |-> 0, stop |-> FALSE]
         ELSE [s |-> [s EXCEPT !.calls = Append(@, [fn |-> "action_extra_value",
                                                    arg |-> Argv0(s)]),
                               !.argument_pos = @ + 1],
               ret |-> 1, stop |-> FALSE]
    ELSE [s |-> [s EXCEPT !.pos_args[s.argument_pos + 1].specified = TRUE,
                          !.pos_args[s.argument_pos + 1].value = Ptr(Argv0(s)),
                          !.argument_pos = @ + 1],
          ret |-> 1, stop |-> FALSE]

(* Lines 398-412: the token argv[i] as a positional argument.  [s, ret,
   stop: the break of line 411]. *)
ParsePositional(s) ==
    IF s.argument_pos >= Len(s.pos_args)
    THEN IF ~s.config.action_extra_value
         THEN [s |-> jvcmd_exit_with_error(s, "UnexpectedExtraArgument"),
               ret |-> 0, stop |-> FALSE]
         ELSE [s |-> [s EXCEPT !.calls = Append(@, [fn |-> "action_extra_value",
                                                    arg |-> Argv0(s)]),
                               !.argument_pos = @ + 1],
               ret |-> 1,
               stop |-> s.config.stops_at_last_pos
                        /\ s.argument_pos + 1 = Len(s.pos_args)]
    ELSE [s |-> [s EXCEPT !.pos_args[s.argument_pos + 1].specified = TRUE,
                          !.pos_args[s.argument_pos + 1].value = Ptr(Argv0(s)),
                          !.argument_pos = @ + 1],
          ret |-> 1,
          stop |-> s.config.stops_at_last_pos
                   /\ s.argument_pos + 1 = Len(s.pos_args)]

(* TokenDone with a slip: the index advances by one slot whatever the
   matcher used. *)
TokenDoneSingleSlot(s, r) ==
    IF Exited(r.s)
    THEN [r.s EXCEPT !.consumed = Append(@, [at |-> s.i, n |-> r.ret, as |-> r.as])]
    ELSE IF r.stop
    THEN [r.s EXCEPT !.consumed = Append(@, [at |-> s.i, n |-> r.ret, as |-> r.as]),
                     !.pc = "count"]
    ELSE [r.s EXCEPT !.consumed = Append(@, [at |-> s.i, n |-> r.ret, as |-> r.as]),
                     !.i = @ + 1,
                     !.pc = IF s.i + 1 < Len(s.argv) THEN "scan" ELSE "count"]

(* Lines 408-414: the end of an iteration, which used r.ret slots as r.as,
   and the loop's test. *)
TokenDone(s, r) ==
    IF Exited(r.s)
    THEN [r.s EXCEPT !.consumed = Append(@, [at |-> s.i, n |-> r.ret, as |-> r.as])]
    ELSE IF r.stop
    THEN [r.s EXCEPT !.consumed = Append(@, [at |-> s.i, n |-> r.ret, as |-> r.as]),
                     !.pc = "count"]
    ELSE [r.s EXCEPT !.consumed = Append(@, [at |-> s.i, n |-> r.ret, as |-> r.as]),
                     !.i = @ + r.ret,
                     !.pc = IF s.i + r.ret < Len(s.argv) THEN "scan" ELSE "count"]

(* Lines 398-412 after the matcher returned opt. *)
TokenAfterOptions(s, opt) ==
    IF Exited(opt.s)
    THEN TokenDone(s, [s |-> opt.s, ret |-> 0, stop |-> FALSE, as |-> "option"])
    ELSE IF opt.ret = 0
    THEN TokenDone(s, [as |-> "positional"] @@ ParsePositional(opt.s))
    ELSE TokenDone(s, [s |-> opt.s, ret |-> opt.ret, stop |-> FALSE, as |-> "option"])

(* ParseToken with a slip: the terminator flag is not consulted. *)
ParseTokenNoLatch(s) ==
    IF jvstr_equal(StrView_make(Argv0(s)),
                   StrView_make(Deref(s.config.no_more_options)))
    THEN TokenDone(s, [s |-> [s EXCEPT !.no_more_options_encountered = TRUE],
                       ret |-> 1, stop |-> FALSE, as |-> "terminator"])
    ELSE TokenAfterOptions(
             s, check_options(s, StrView_make(Deref(s.config.short_options_prefix)),
                              StrView_make(Deref(s.config.options_prefix))))

(* Lines 387-414: one iteration of the loop over argv. *)
ParseToken(s) ==
    IF s.no_more_options_encountered
    THEN TokenAfterOptions(s, [s |-> s, ret |-> 0])
    ELSE IF jvstr_equal(StrView_make(Argv0(s)),
                        StrView_make(Deref(s.config.no_more_options)))
    THEN TokenDone(s, [s |-> [s EXCEPT !.no_more_options_encountered = TRUE],
                       ret |-> 1, stop |-> FALSE, as |-> "terminator"])
    ELSE TokenAfterOptions(
             s, check_options(s, StrView_make(Deref(s.config.short_options_prefix)),
                              StrView_make(Deref(s.config.options_prefix))))

(* Moves past a descriptor list that is exhausted: from the options to the
   positional arguments (line 423 empties the prefix), then the return. *)
RECURSIVE NextDescriptor(_)
(* NextDescriptor with a slip: the call returns after the options, the
   positional descriptors are not validated. *)
NextDescriptorSkipsPositionals(s) ==
    IF s.pc = "options" /\ s.k >= Len(s.options)
    THEN [s EXCEPT !.pc = "returned", !.k = 0, !.config.options_prefix = Ptr("")]
    ELSE IF s.pc = "pos_args" /\ s.k >= Len(s.pos_args)
    THEN [s EXCEPT !.pc = "returned"]
    ELSE s

NextDescriptor(s) ==
    IF s.pc = "options" /\ s.k >= Len(s.options)
    THEN NextDescriptor([s EXCEPT !.pc = "pos_args", !.k = 0,
                                  !.config.options_prefix = Ptr("")])
    ELSE IF s.pc = "pos_args" /\ s.k >= Len(s.pos_args)
    THEN [s EXCEPT !.pc = "returned"]
    ELSE s

(* ParseCount with a slip: exactly the required number is refused. *)
ParseCountOffByOne(s) ==
    IF s.argument_pos <= s.config.nb_pos_args_required
    THEN jvcmd_exit_with_error(s, "TooFewPositionalArguments")
    ELSE NextDescriptor([s EXCEPT !.pc = "options", !.k = 0])

(* Lines 416-417: the number of positional arguments given. *)
ParseCount(s) ==
    IF s.argument_pos < s.config.nb_pos_args_required
    THEN jvcmd_exit_with_error(s, "TooFewPositionalArguments")
    ELSE NextDescriptor([s EXCEPT !.pc = "options", !.k = 0])

(* Lines 419-426: check_convert_value on the next descriptor of the list;
   r is what it returns. *)
ConvertDone(s, r) ==
    IF r.err # "none"
    THEN jvcmd_exit_with_error(
             IF s.pc = "options" THEN [s EXCEPT !.options[s.k + 1] = r.arg]
             ELSE [s EXCEPT !.pos_args[s.k + 1] = r.arg],
             r.err)
    ELSE NextDescriptor(
             [s EXCEPT !.options = IF s.pc = "options"
                                   THEN [@ EXCEPT ![s.k + 1] = r.arg] ELSE @,
                       !.pos_args = IF s.pc = "pos_args"
                                    THEN [@ EXCEPT ![s.k + 1] = r.arg] ELSE @,
                       !.calls = IF r.acted
                                 THEN Append(@, [fn |-> "action", arg |-> r.arg.name])
                                 ELSE @,
                       !.k = @ + 1])

ParseConvert(s) ==
    ConvertDone(s, check_convert_value(
                       s.config,
                       IF s.pc = "options" THEN s.options[s.k + 1]
                       ELSE s.pos_args[s.k + 1]))

(* One step of the call, whatever it is. *)
Step(s) ==
    CASE s.pc = "start" -> ParseBegin(s)
      [] s.pc = "scan" -> ParseToken(s)
      [] s.pc = "count" -> ParseCount(s)
      [] s.pc \in {"options", "pos_args"} -> ParseConvert(s)

Terminated(s) == Exited(s) \/ s.pc = "returned"

(* The state in which the call started from s ends. *)
RECURSIVE Run(_)
Run(s) == IF Terminated(s) THEN s ELSE Run(Step(s))

(* ---- The calls explored ---- *)

(* The longest argument vector (the program's name not counted). *)
MaxArgs == 2

(* Option descriptors: two flags and an option with a value, as the caller
   declares them (examples/filetree.cpp declares max-depth with short name
   'L', an int in [1, 50] with default "5"). *)
OptX == [ZeroArg EXCEPT !.name = "xx", !.short_name = "x"]

OptH == [ZeroArg EXCEPT !.name = "hh", !.short_name = "h"]

OptL == [ZeroArg EXCEPT !.name = "max", !.short_name = "L", !.need_value = TRUE]

OptDepth ==
    [ZeroArg EXCEPT !.name = "max", !.short_name = "L", !.is_int = TRUE,
                    !.int_min = 1, !.int_max = 50, !.default_value = Ptr("5")]

(* Two flags declared under the names of the built-in keywords. *)
OptHelp == [ZeroArg EXCEPT !.name = "help", !.short_name = "x"]

OptJvcmd == [ZeroArg EXCEPT !.name = "jvcmd", !.short_name = "h"]

(* Positional descriptors (examples/filetree.cpp declares root with a
   default and a callback). *)
PosSrc == [ZeroArg EXCEPT !.name = "src"]

PosDst == [ZeroArg EXCEPT !.name = "dst"]

PosRoot ==
    [ZeroArg EXCEPT !.name = "root", !.need_value = TRUE,
                    !.default_value = Ptr("."), !.action = TRUE]

(* The configurations of the calls that exercise the token loop. *)
DriverConfigs ==
    LET plain == [config |-> ZeroConfig, options |-> << OptX, OptH, OptL >>,
                  pos_args |-> << PosSrc, PosDst >>]
    IN  { plain,
          [plain EXCEPT !.config.no_help = TRUE],
          [plain EXCEPT !.config.no_help = TRUE,
                        !.config.action_extra_value = TRUE,
                        !.config.nb_pos_args_required = 1],
          [plain EXCEPT !.config.stops_at_last_pos = TRUE,
                        !.config.nb_pos_args_required = 2],
          [plain EXCEPT !.config.no_help = TRUE,
                        !.config.program_name = Ptr("tree"),
                        !.options = << OptX, OptH, OptDepth >>,
                        !.pos_args = << PosRoot >>],
          [plain EXCEPT !.config.stops_at_last_pos = TRUE,
                        !.pos_args = << PosSrc >>],
          [plain EXCEPT !.config.no_help = TRUE,
                        !.config.action_extra_value = TRUE,
                        !.config.nb_pos_args_required = 2,
                        !.pos_args = << PosSrc >>],
          [plain EXCEPT !.config.no_help = TRUE,
                        !.config.action_extra_value = TRUE,
                        !.options = << [OptX EXCEPT !.action = TRUE], OptH, OptDepth >>,
                        !.pos_args = << PosRoot >>],
          [plain EXCEPT !.options = << OptHelp, OptJvcmd, OptL >>],
          [plain EXCEPT !.config.no_help = TRUE,
                        !.options = << OptHelp, OptJvcmd, OptL >>],
          [plain EXCEPT !.config.short_options_prefix = Ptr("")] }

(* The tokens of those calls, under the default prefixes "-" and "--". *)
Tokens ==
    { "--", "-", "--help", "--jvcmd", "--xx", "--hh", "--max", "--no",
      "-x", "-h", "-L", "-q", "-xh", "-xL", "-Lx", "-Lh", "-L7", "7", "77", "a" }

ArgVectors == UNION { [1..n -> Tokens] : n \in 0..MaxArgs }

DriverCalls ==
    { [config |-> c.config, options |-> c.options, pos_args |-> c.pos_args,
       argv |-> IF c.config.program_name = NULL THEN << "prog" >> \o a ELSE a] :
      c \in DriverConfigs, a \in ArgVectors }

(* The calls that exercise the conversions: one typed descriptor, declared
   both as the option --val / -v and as the positional argument (this one
   with a callback), and one raw
   value, given in each form the command line allows or as the default. *)
IntValues ==
    { "0", "1", "5", "50", "51", "100", "-1", "+5", " 7", "010", "0x10", "08",
      "12abc", "abc", "", "-", "2147483647", "2147483648", "-2147483648",
      "-2147483649", "9223372036854775807", "9223372036854775808" }

FloatValues == { "0", "1.5", "1.51", "-2", "3", "1e2", "1.5x", "abc", "", ".", "inf" }

BoolValues ==
    { "1", "true", "True", "TRUE", "y", "yes", "YES", "0", "false", "n", "No", "NO",
      "tru", "truee", "tRUE", "yES", "", "true True", "1 ", "on", "off", "On" }

EnumValues ==
    { "add", "sub", "mult", "div", "mul", "multi", "ad", "dd", "", "add sub",
      "sub mult div", "Add", " add" }

Typed ==
    { [arg |-> [ZeroArg EXCEPT !.is_int = TRUE], config |-> ZeroConfig, raw |-> r] :
         r \in IntValues }
    \cup
    { [arg |-> [ZeroArg EXCEPT !.is_int = TRUE, !.int_min = 1, !.int_max = 50],
       config |-> ZeroConfig, raw |-> r] : r \in IntValues }
    \cup
    { [arg |-> [ZeroArg EXCEPT !.is_float = TRUE], config |-> ZeroConfig, raw |-> r] :
         r \in FloatValues }
    \cup
    { [arg |-> [ZeroArg EXCEPT !.is_float = TRUE, !.float_max = Dec(15, 1)],
       config |-> ZeroConfig, raw |-> r] : r \in FloatValues }
    \cup
    { [arg |-> [ZeroArg EXCEPT !.is_bool = TRUE], config |-> ZeroConfig, raw |-> r] :
         r \in BoolValues }
    \cup
    { [arg |-> [ZeroArg EXCEPT !.is_bool = TRUE],
       config |-> [ZeroConfig EXCEPT !.true_synonyms = Ptr("on"),
                                     !.false_synonyms = Ptr("off")],
       raw |-> r] : r \in BoolValues }
    \cup
    { [arg |-> [ZeroArg EXCEPT !.allowed_values = Ptr("add sub mult div")],
       config |-> ZeroConfig, raw |-> r] : r \in EnumValues }

ConvForms(t) ==
    LET opt == [t.arg EXCEPT !.name = "val", !.short_name = "v"]
        pos == [t.arg EXCEPT !.name = "arg", !.action = TRUE]
        call(o, a) == [config |-> t.config, options |-> << o >>, pos_args |-> << pos >>,
                       argv |-> << "prog" >> \o a]
    IN  { call(opt, << "--val", t.raw >>),
          call(opt, << "-v", t.raw >>),
          call(opt, << "-v" \o t.raw >>),
          call(opt, << t.raw >>),
          call(opt, << "--", t.raw >>),
          call([opt EXCEPT !.default_value = Ptr(t.raw)], << >>) }

ConvCalls == UNION { ConvForms(t) : t \in Typed }

(* The calls that exercise the unspecified descriptors: one descriptor with
   every combination of required, need_value, is_int, a default and a
   callback, declared as the option --val / -v beside a plain positional
   argument, or as the positional argument beside a plain option; with no
   token, with the option alone, with the option and a value, with a value. *)
Declared ==
    { [ZeroArg EXCEPT !.required = rq, !.need_value = nv, !.is_int = int,
                      !.default_value = df, !.action = ac] :
        rq \in BOOLEAN, nv \in BOOLEAN, int \in BOOLEAN,
        df \in { NULL, Ptr("5"), Ptr("abc") }, ac \in BOOLEAN }

DefaultForms(opt, pos) ==
    { [config |-> ZeroConfig,
       options |-> << [opt EXCEPT !.name = "val", !.short_name = "v"] >>,
       pos_args |-> << [pos EXCEPT !.name = "arg"] >>,
       argv |-> << "prog" >> \o a] :
        a \in { << >>, << "--val" >>, << "--val", "7" >>, << "7" >> } }

DefaultCalls ==
    UNION { DefaultForms(d, ZeroArg) \cup DefaultForms(ZeroArg, d) : d \in Declared }

(* The state when jvcmd_parse_arguments is entered: the caller's
   configuration, every output field zero. *)
Init ==
    /\ \E c \in DriverCalls \cup ConvCalls \cup DefaultCalls :
          /\ config = c.config
          /\ options = c.options
          /\ pos_args = c.pos_args
          /\ argv = c.argv
    /\ i = 0
    /\ argument_pos = 0
    /\ no_more_options_encountered = FALSE
    /\ pc = "start"
    /\ k = 0
    /\ exit_status = -1
    /\ message = "none"
    /\ consumed = << >>
    /\ calls = << >>

Running == ~Terminated(St)

LastUse(s) == s.consumed[Len(s.consumed)]

(* Lines 362-386. *)
Begin == Running /\ pc = "start" /\ Set(ParseBegin(St))

(* Lines 390-392: the token is the terminator. *)
ScanTerminator ==
    /\ Running /\ pc = "scan"
    /\ \E r \in {ParseToken(St)} : LastUse(r).as = "terminator" /\ Set(r)

(* Lines 394, 413: the token is an option (or exits in the matcher). *)
ScanOption ==
    /\ Running /\ pc = "scan"
    /\ \E r \in {ParseToken(St)} : LastUse(r).as = "option" /\ Set(r)

(* Lines 398-412: the token is a positional argument. *)
ScanPositional ==
    /\ Running /\ pc = "scan"
    /\ \E r \in {ParseToken(St)} : LastUse(r).as = "positional" /\ Set(r)

(* Lines 416-417. *)
CountPositionals == Running /\ pc = "count" /\ Set(ParseCount(St))

(* Lines 419-421. *)
ConvertOption == Running /\ pc = "options" /\ Set(ParseConvert(St))

(* Lines 423-426. *)
ConvertPosArg == Running /\ pc = "pos_args" /\ Set(ParseConvert(St))

Next ==
    \/ Begin
    \/ ScanTerminator
    \/ ScanOption
    \/ ScanPositional
    \/ CountPositionals
    \/ ConvertOption
    \/ ConvertPosArg

Spec == Init /\ [][Next]_vars


(* ---- Properties ---- *)

Scanning == pc = "scan" /\ Running

ShortPrefix == Deref(config.short_options_prefix)

LongPrefix == Deref(config.options_prefix)

(* The token under the scan index goes to check_short_options: the option
   matcher is consulted and the long matcher lets the token through. *)
ShortRunToken ==
    /\ Scanning /\ ~no_more_options_encountered
    /\ Argv0(St) # Deref(config.no_more_options)
    /\ ~(Len(LongPrefix) > 0 /\ jvstr_starts_with(Argv0(St), LongPrefix))
    /\ Len(ShortPrefix) > 0 /\ jvstr_starts_with(Argv0(St), ShortPrefix)

(* The characters of that token after the short prefix. *)
RunOf(tok) == SubSeq(tok, Len(ShortPrefix) + 1, Len(tok))

(* c is looked up among the short names (it is not the built-in help
   character) and names option n. *)
NamesShort(c, n) ==
    /\ ~(~config.no_help /\ c = "h")
    /\ n = FirstByShortName(options, c)

Flags == { n \in 1..Len(options) : options[n].short_name # NUL /\ ~options[n].need_value }

Valued == { n \in 1..Len(options) : options[n].short_name # NUL /\ options[n].need_value }

(* Two calls end alike: the same outcome (return, exit status) and the same
   fields in every descriptor. *)
SameResult(a, b) ==
    /\ a.options = b.options
    /\ a.pos_args = b.pos_args
    /\ a.exit_status = b.exit_status
    /\ (a.pc = "returned") = (b.pc = "returned")

(* The state s with the tokens argv[i .. i+n-1] replaced by the tokens new. *)
Replaced(s, n, new) ==
    [s EXCEPT !.argv = SubSeq(@, 1, s.i) \o new \o SubSeq(@, s.i + n + 1, Len(@))]

(* C1: once the terminator has been seen, every later token goes to the
   positional assigner: the terminator flag stays set, the step is recorded
   as positional, no option descriptor changes, and the only exit possible
   is the assigner's own unexpected-extra-argument error. *)
C1_TerminatorIsPermanent ==
    [][(Scanning /\ no_more_options_encountered) =>
          /\ no_more_options_encountered'
          /\ consumed' = Append(consumed, [at |-> i, n |-> consumed'[Len(consumed')].n,
                                           as |-> "positional"])
          /\ options' = options
          /\ \/ exit_status' = 1 /\ message' = "UnexpectedExtraArgument"
                                 /\ argument_pos >= Len(pos_args)
                                 /\ argument_pos' = argument_pos
             \/ exit_status' = -1 /\ argument_pos' = argument_pos + 1]_vars

(* A token that looks like an option (or is a second terminator) was bound
   as a positional argument after the terminator. *)
C1_Witness ==
    \E m, n \in 1..Len(consumed) :
        /\ m < n
        /\ consumed[m].as = "terminator"
        /\ consumed[n].as = "positional"
        /\ argv[consumed[n].at + 1] \in {"--help", "-x", "--", "--xx", "-h"}
        /\ pos_args[1].value = Ptr(argv[consumed[n].at + 1])

(* The current token supplies option n in long form: it is the long prefix
   and the name of n, found by name (no built-in long name shadows it), and
   n has a short name too. *)
LongFormOf(n) ==
    /\ Scanning /\ ~no_more_options_encountered
    /\ Argv0(St) # Deref(config.no_more_options)
    /\ Len(LongPrefix) > 0 /\ Len(ShortPrefix) > 0
    /\ Argv0(St) = LongPrefix \o options[n].name
    /\ options[n].name # "jvcmd"
    /\ ~(~config.no_help /\ options[n].name = "help")
    /\ n = FirstByName(options, options[n].name)
    /\ options[n].short_name # NUL

ShortToken(n) == ShortPrefix \o options[n].short_name

(* The command line with option n in short form ends like the one with the
   long form: the value as next token, and (if the value is not empty)
   attached to the short name. *)
ShortFormsAgree(n) ==
    /\ SameResult(Run(St), Run(Replaced(St, 1, << ShortToken(n) >>)))
    /\ (options[n].need_value /\ Argv1(St) # NULL /\ Deref(Argv1(St)) # "") =>
          SameResult(Run(St),
                     Run(Replaced(St, 2, << ShortToken(n) \o Deref(Argv1(St)) >>)))

(* C2 as stated: for every declared option with a long and a short name,
   the long form and the short forms end the parse with the same outcome
   and the same fields in every descriptor. *)
C2_AnyOption ==
    \A n \in 1..Len(options) : LongFormOf(n) => ShortFormsAgree(n)

(* C2, amended: the same for every such option whose short name is looked
   up as an option, that is, is not the built-in help character h while
   help is not suppressed. *)
C2_LongShortEquivalent ==
    \A n \in 1..Len(options) :
        (LongFormOf(n) /\ NamesShort(options[n].short_name, n)) => ShortFormsAgree(n)

(* A value option was given in long form with a value, and the parse of
   this command line returns normally. *)
C2_Witness ==
    \E n \in 1..Len(options) :
        /\ LongFormOf(n)
        /\ options[n].need_value
        /\ Argv1(St) # NULL /\ Deref(Argv1(St)) # ""
        /\ Run(St).pc = "returned"
        /\ Run(St).options[n].value = Argv1(St)

(* Every way of cutting a non-empty run into non-empty pieces, in order. *)
RECURSIVE Splits(_)
Splits(run) ==
    IF Len(run) = 0 THEN { << >> }
    ELSE UNION { { << SubSeq(run, 1, j) >> \o rest :
                      rest \in Splits(SubSeq(run, j + 1, Len(run))) } :
                 j \in 1..Len(run) }

(* The current token is a run of at least two declared no-value flags. *)
FlagRun ==
    /\ ShortRunToken
    /\ Len(RunOf(Argv0(St))) >= 2
    /\ \A j \in 1..Len(RunOf(Argv0(St))) :
          \E n \in Flags : options[n].short_name = SubSeq(RunOf(Argv0(St)), j, j)

(* C3: a chained token of no-value flags and every split of it into
   several short-prefixed tokens, in the same order, end the parse with the
   same outcome and the same fields in every descriptor. *)
C3_ChainEqualsSplit ==
    FlagRun =>
        \A pieces \in Splits(RunOf(Argv0(St))) :
            SameResult(Run(St),
                       Run(Replaced(St, 1, [j \in 1..Len(pieces) |->
                                               ShortPrefix \o pieces[j]])))

(* A chain of two different flags is under the scan index, and the parse
   marks both and returns. *)
C3_Witness ==
    /\ FlagRun
    /\ SubSeq(RunOf(Argv0(St)), 1, 1) # SubSeq(RunOf(Argv0(St)), 2, 2)
    /\ Run(St).pc = "returned"
    /\ \A n \in Flags : Run(St).options[n].specified


(* Every character of run is a declared no-value flag that the matcher
   looks up (none is the built-in help character). *)
AllFlags(run) ==
    \A j \in 1..Len(run) :
        \E m \in Flags : /\ options[m].short_name = SubSeq(run, j, j)
                         /\ NamesShort(SubSeq(run, j, j), m)

(* C4: in a short run, a value option met after at least one flag is a
   fatal error; a value option that opens the run takes the non-empty rest
   of the token as value (one slot), else the next token (two slots), and
   is a fatal error when there is no next token. *)
C4_ShortValueOption ==
    [][ShortRunToken =>
          \A n \in Valued : \A j \in 1..Len(RunOf(Argv0(St))) :
              ( /\ SubSeq(RunOf(Argv0(St)), j, j) = options[n].short_name
                /\ NamesShort(options[n].short_name, n)
                /\ AllFlags(SubSeq(RunOf(Argv0(St)), 1, j - 1)) )
              =>
              IF j > 1
              THEN exit_status' = 1 /\ message' = "ChainedOptionNeedsValue"
              ELSE IF Len(RunOf(Argv0(St))) > 1
              THEN /\ exit_status' = -1
                   /\ options'[n].specified
                   /\ options'[n].value = Ptr(SubSeq(RunOf(Argv0(St)), 2,
                                                    Len(RunOf(Argv0(St)))))
                   /\ i' = i + 1
              ELSE IF Argv1(St) # NULL
              THEN /\ exit_status' = -1
                   /\ options'[n].specified
                   /\ options'[n].value = Argv1(St)
                   /\ i' = i + 2
              ELSE exit_status' = 1 /\ message' = "MissingOptionValue"]_vars

(* The matcher rejected a value option chained after a flag. *)
C4_Witness ==
    /\ exit_status = 1 /\ message = "ChainedOptionNeedsValue"
    /\ pc = "scan"
    /\ \E n \in Valued : \E f \in Flags :
          /\ argv[i + 1] = ShortPrefix \o options[f].short_name \o options[n].short_name
          /\ options[f].specified

(* C5 as stated: with x a flag and L a value option, -Lx binds x as the
   value of L without marking x, and -xL succeeds, x marked and L taking
   the next token as value. *)
C5_FlagThenValueSucceeds ==
    [][ShortRunToken =>
          \A x \in Flags : \A L \in Valued :
              ( /\ NamesShort(options[x].short_name, x)
                /\ NamesShort(options[L].short_name, L) )
              =>
              /\ RunOf(Argv0(St)) = options[L].short_name \o options[x].short_name
                    => /\ exit_status' = -1
                       /\ options'[L].value = Ptr(options[x].short_name)
                       /\ options'[x] = options[x]
              /\ RunOf(Argv0(St)) = options[x].short_name \o options[L].short_name
                    => /\ exit_status' = -1
                       /\ options'[x].specified
                       /\ options'[L].value = Argv1(St)]_vars

(* C5, amended: -Lx binds x as the value of L without marking x (one slot
   used), and -xL is a fatal error: x is marked, then L is refused because
   a value option cannot follow a flag in the same run. *)
C5_ValueThenFlagBinds ==
    [][ShortRunToken =>
          \A x \in Flags : \A L \in Valued :
              ( /\ NamesShort(options[x].short_name, x)
                /\ NamesShort(options[L].short_name, L) )
              =>
              /\ RunOf(Argv0(St)) = options[L].short_name \o options[x].short_name
                    => /\ exit_status' = -1
                       /\ options'[L].specified
                       /\ options'[L].value = Ptr(options[x].short_name)
                       /\ options'[x] = options[x]
                       /\ i' = i + 1
              /\ RunOf(Argv0(St)) = options[x].short_name \o options[L].short_name
                    => /\ exit_status' = 1
                       /\ message' = "ChainedOptionNeedsValue"
                       /\ options'[x].specified
                       /\ options'[L].value = options[L].value]_vars

(* -Lx bound x as the value of L, x unmarked; then -xL marked x and was
   refused. *)
C5_Witness ==
    /\ exit_status = 1 /\ message = "ChainedOptionNeedsValue"
    /\ Len(consumed) = 2
    /\ \E x \in Flags : \E L \in Valued :
          /\ argv[1] = ShortPrefix \o options[L].short_name \o options[x].short_name
          /\ argv[2] = ShortPrefix \o options[x].short_name \o options[L].short_name
          /\ options[L].value = Ptr(options[x].short_name)
          /\ options[x].specified


(* The descriptors check_convert_value has been called on, each with ok:
   whether the call returned (TRUE) or exited with a fatal error (FALSE).
   k descriptors of the list pc names have been validated; an exit while
   validating happened on descriptor k + 1. *)
Checked ==
    { [arg |-> options[n], ok |-> TRUE] :
        n \in { m \in 1..Len(options) :
                  \/ pc = "options" /\ m <= k
                  \/ pc \in {"pos_args", "returned"} } }
    \cup
    { [arg |-> options[n], ok |-> FALSE] :
        n \in { m \in 1..Len(options) :
                  pc = "options" /\ exit_status # -1 /\ m = k + 1 } }
    \cup
    { [arg |-> pos_args[n], ok |-> TRUE] :
        n \in { m \in 1..Len(pos_args) :
                  \/ pc = "pos_args" /\ m <= k
                  \/ pc = "returned" } }
    \cup
    { [arg |-> pos_args[n], ok |-> FALSE] :
        n \in { m \in 1..Len(pos_args) :
                  pc = "pos_args" /\ exit_status # -1 /\ m = k + 1 } }

(* The descriptors of Checked that have a raw value, given or default. *)
CheckedValues == { c \in Checked : c.arg.specified /\ c.arg.value # NULL }

(* raw is, as a whole, an integer literal that fits the parse type. *)
FullInteger(raw) ==
    LET r == strtol(raw) IN r.end > 0 /\ r.end = Len(raw) /\ ~r.erange

(* C6: a specified is_int descriptor whose raw value is not, as a whole, an
   integer literal of the parse type's range (trailing characters, nothing
   parsed, out of range) ends the parse with the fatal "not an integer"
   error; as_int is written only for a full integer literal. *)
C6_WholeValueIsInteger ==
    \A c \in CheckedValues :
        (c.arg.is_int /\ ~FullInteger(Deref(c.arg.value)))
        => ~c.ok /\ exit_status = 1 /\ message = "InvalidInteger"

(* The values of the integer literals among the raw values, written out by
   hand, and the literals that fit a long but not an int. *)
IntLiterals ==
    ("0" :> 0) @@ ("1" :> 1) @@ ("5" :> 5) @@ ("7" :> 7) @@ ("50" :> 50) @@
    ("51" :> 51) @@ ("77" :> 77) @@ ("100" :> 100) @@ ("-1" :> -1) @@
    ("+5" :> 5) @@ (" 7" :> 7) @@ ("010" :> 8) @@ ("0x10" :> 16) @@
    ("2147483647" :> 2147483647) @@ ("-2147483648" :> -2147483647 - 1)

WiderThanInt == { "2147483648", "-2147483649", "9223372036854775807" }

(* C7: for an is_int descriptor with int_min # int_max the parse accepts
   the value v, as_int = v, exactly when int_min <= v <= int_max, and
   otherwise exits with the range error; with int_min = int_max every int
   is accepted and a value wider than int is refused with the range error. *)
C7_IntRange ==
    \A c \in CheckedValues :
        c.arg.is_int =>
        /\ Deref(c.arg.value) \in DOMAIN IntLiterals =>
              LET v == IntLiterals[Deref(c.arg.value)]
              IN  IF c.arg.int_min # c.arg.int_max
                     /\ (v < c.arg.int_min \/ v > c.arg.int_max)
                  THEN ~c.ok /\ exit_status = 1 /\ message = "IntegerOutOfRange"
                  ELSE c.ok /\ c.arg.as_int = v
        /\ Deref(c.arg.value) \in WiderThanInt =>
              ~c.ok /\ exit_status = 1 /\ message = "IntegerOutOfRange"

(* The call returned with the upper bound 50 of [1, 50] accepted. *)
C7_Witness ==
    /\ pc = "returned"
    /\ \E c \in CheckedValues :
          /\ c.arg.is_int /\ c.arg.int_min = 1 /\ c.arg.int_max = 50
          /\ c.arg.value = Ptr("50") /\ c.ok /\ c.arg.as_int = 50

(* C8: a specified is_float descriptor whose raw value is not a numeric
   literal (the float parse consumes nothing) ends the parse with a fatal
   error and is never accepted. *)
C8_NonNumericFloatIsFatal ==
    \A c \in CheckedValues :
        (c.arg.is_float /\ strtof(Deref(c.arg.value)).end = 0)
        => ~c.ok /\ exit_status = 1

(* The members of the allowed values "add sub mult div" of examples/calc.c. *)
CalcOperations == { "add", "sub", "mult", "div" }

(* C9: a descriptor with allowed values passes validation only if its raw
   value, given or default, equals one member of the space-delimited list;
   any other value exits with the fatal error. *)
C9_AllowedValueExact ==
    \A c \in CheckedValues :
        c.arg.allowed_values = Ptr("add sub mult div") =>
            IF Deref(c.arg.value) \in CalcOperations
            THEN c.ok
            ELSE ~c.ok /\ exit_status = 1 /\ message = "InvalidEnumValue"

(* The prefix "mul" of the member "mult" was refused. *)
C9_Witness ==
    /\ exit_status = 1 /\ message = "InvalidEnumValue"
    /\ \E c \in CheckedValues :
          /\ c.arg.allowed_values = Ptr("add sub mult div")
          /\ c.arg.value = Ptr("mul") /\ ~c.ok

(* The synonyms configured: the caller's "on" / "off", or the defaults of
   lines 371-372, written out by hand. *)
TrueSynonyms ==
    IF config.true_synonyms = Ptr("on") THEN { "on" }
    ELSE { "1", "true", "True", "TRUE", "y", "Y", "yes", "Yes", "YES" }

FalseSynonyms ==
    IF config.false_synonyms = Ptr("off") THEN { "off" }
    ELSE { "0", "false", "False", "FALSE", "n", "N", "no", "No", "NO" }

(* C10: for a specified is_bool descriptor, a raw value equal to a true
   synonym gives as_bool = TRUE, one equal to a false synonym gives as_bool
   = FALSE, and any other value exits with the "not a boolean" error. *)
C10_BoolSynonyms ==
    \A c \in CheckedValues :
        c.arg.is_bool =>
            IF Deref(c.arg.value) \in TrueSynonyms THEN c.ok /\ c.arg.as_bool
            ELSE IF Deref(c.arg.value) \in FalseSynonyms THEN c.ok /\ ~c.arg.as_bool
            ELSE ~c.ok /\ exit_status = 1 /\ message = "InvalidBoolean"

(* The call returned with the true synonym "yes" converted to TRUE. *)
C10_Witness ==
    /\ pc = "returned"
    /\ \E c \in CheckedValues :
          c.arg.is_bool /\ c.arg.value = Ptr("yes") /\ c.ok /\ c.arg.as_bool


(* check_convert_value is about to be called on the descriptor Cur, which
   is CurAfter once the call has returned or exited. *)
Converting == Running /\ pc \in {"options", "pos_args"}

Cur == IF pc = "options" THEN options[k + 1] ELSE pos_args[k + 1]

CurAfter == IF pc = "options" THEN options'[k + 1] ELSE pos_args'[k + 1]

(* The state with d in the place of Cur. *)
WithCur(d) ==
    IF pc = "options" THEN [St EXCEPT !.options[k + 1] = d]
    ELSE [St EXCEPT !.pos_args[k + 1] = d]

(* C11: a descriptor unspecified after the token pass that needs a value
   and has a default takes the default as raw value, is marked specified,
   and is then checked exactly as if the user had given that value;
   otherwise, if required, the parse exits with the missing-required error;
   otherwise the descriptor is left as it is and no callback runs. *)
C11_DefaultThenRequired ==
    [][(Converting /\ ~Cur.specified) =>
          IF Cur.need_value /\ Cur.default_value # NULL
          THEN /\ CurAfter.specified
               /\ CurAfter.value = Cur.default_value
               /\ St' = Step(WithCur([Cur EXCEPT !.value = Cur.default_value,
                                                 !.specified = TRUE]))
          ELSE IF Cur.required
          THEN exit_status' = 1 /\ message' = "MissingRequiredOption" /\ calls' = calls
          ELSE CurAfter = Cur /\ calls' = calls /\ exit_status' = -1]_vars

(* With no token given, a required option with a default was given the
   default, converted, and the call returned. *)
C11_Witness ==
    /\ pc = "returned" /\ argv = << >>
    /\ options[1].required /\ options[1].is_int
    /\ options[1].default_value = Ptr("5")
    /\ options[1].specified /\ options[1].value = Ptr("5") /\ options[1].as_int = 5


(* C12: in a parse that returns, specified is true after validation only
   if a token of the command line supplied the argument (it was specified
   when the token pass ended), and an argument no token supplied has its
   declared default_value in value, whether or not it needs a value. *)
C12_SpecifiedOnlyByUser ==
    [][(Converting /\ Run(St).pc = "returned") =>
          /\ CurAfter.specified => Cur.specified
          /\ (~Cur.specified /\ Cur.default_value # NULL)
                => CurAfter.value = Cur.default_value]_vars


(* The fields of a descriptor that the parse writes. *)
ResultFields(d) ==
    [value |-> d.value, specified |-> d.specified, as_int |-> d.as_int,
     as_float |-> d.as_float, as_bool |-> d.as_bool]

(* Two calls end with the same outcome and the same result fields. *)
SameFields(a, b) ==
    /\ a.exit_status = b.exit_status
    /\ (a.pc = "returned") = (b.pc = "returned")
    /\ \A n \in 1..Len(a.options) :
          ResultFields(a.options[n]) = ResultFields(b.options[n])
    /\ \A n \in 1..Len(a.pos_args) :
          ResultFields(a.pos_args[n]) = ResultFields(b.pos_args[n])

(* C13: short_name, required and need_value of a positional descriptor are
   ignored: the call ends with the same outcome and the same result fields
   whatever these three fields of a positional descriptor are. *)
C13_PositionalFieldsIgnored ==
    pc = "start" =>
        \A n \in 1..Len(pos_args) :
            \A sn \in {NUL, "x"} : \A rq \in BOOLEAN : \A nv \in BOOLEAN :
                SameFields(Run(St),
                           Run([St EXCEPT !.pos_args[n].short_name = sn,
                                          !.pos_args[n].required = rq,
                                          !.pos_args[n].need_value = nv]))


(* The token under the scan index supplies option n: in long form, or as
   the first character of a short run.  The matcher then writes the
   specified flag and the raw value of n. *)
Supplies(n) ==
    \/ LongFormOf(n)
    \/ /\ ShortRunToken
       /\ Len(RunOf(Argv0(St))) > 0
       /\ SubSeq(RunOf(Argv0(St)), 1, 1) = options[n].short_name
       /\ NamesShort(options[n].short_name, n)

(* The raw fields and the converted fields of a descriptor. *)
Raw(d) == [value |-> d.value, specified |-> d.specified]

Converted(d) == [as_int |-> d.as_int, as_float |-> d.as_float, as_bool |-> d.as_bool]

(* C14 as stated: every result field is written exactly once in a call,
   also when an option occurs several times: when a token supplies an
   option, the option's specified flag and raw value are not yet written. *)
C14_WrittenExactlyOnce ==
    \A n \in 1..Len(options) : Supplies(n) => ~options[n].specified

(* C14, amended: an option's raw fields are written at each occurrence of
   the option (the last one wins); validation writes the converted fields
   of a descriptor only in that descriptor's own step, and never changes
   the raw fields of a descriptor that is already specified; the raw
   fields of a specified positional descriptor never change. *)
C14_WrittenOncePerOccurrence ==
    [][/\ \A n \in 1..Len(options) :
            /\ Converted(options'[n]) # Converted(options[n])
                  => pc = "options" /\ n = k + 1
            /\ (options[n].specified /\ ~Scanning)
                  => Raw(options'[n]) = Raw(options[n])
            /\ (Supplies(n) /\ exit_status' = -1)
                  => /\ options'[n].specified
                     /\ options'[n].value # NULL
                     /\ options'[n].need_value
                           => options'[n].value \in
                                 { Argv1(St),
                                   Ptr(SubSeq(RunOf(Argv0(St)), 2,
                                              Len(RunOf(Argv0(St))))) }
       /\ \A n \in 1..Len(pos_args) :
            /\ Converted(pos_args'[n]) # Converted(pos_args[n])
                  => pc = "pos_args" /\ n = k + 1
            /\ pos_args[n].specified
                  => Raw(pos_args'[n]) = Raw(pos_args[n])]_vars

(* The value option was given twice, and the call returned with the value
   of the second occurrence. *)
C14_Witness ==
    /\ pc = "returned"
    /\ Len(argv) = 2 /\ argv[1] = "-L7" /\ argv[2] = "-Lx"
    /\ \E n \in Valued : options[n].short_name = "L" /\ options[n].value = Ptr("x")


(* No converted field changes and no descriptor callback runs in the step. *)
NothingConverted ==
    /\ \A n \in 1..Len(options) : Converted(options'[n]) = Converted(options[n])
    /\ \A n \in 1..Len(pos_args) : Converted(pos_args'[n]) = Converted(pos_args[n])
    /\ \A j \in 1..Len(calls') : calls'[j].fn = "action" => j <= Len(calls)

(* C15: the token pass handles the token under the index, each slot once
   and in order: the index advances by the 1 or 2 slots the step used and
   never passes the end of argv; nothing is converted before the pass has
   ended and the count of positional arguments has been checked; then the
   options are validated in list order, and only then the positional
   descriptors, in list order. *)
C15_Ordering ==
    [][/\ Len(consumed') > 0 => consumed'[1].at = 0
       /\ \A j \in 1..(Len(consumed') - 1) :
             consumed'[j + 1].at = consumed'[j].at + consumed'[j].n
       /\ i' <= Len(argv')
       /\ (pc = "start" /\ Running) => pc' \in {"scan", "count"} /\ i' = 0 /\ NothingConverted
       /\ Scanning =>
             /\ i < Len(argv)
             /\ consumed' = Append(consumed, consumed'[Len(consumed')])
             /\ consumed'[Len(consumed')].at = i
             /\ NothingConverted
             /\ exit_status' = -1 =>
                   /\ pc' \in {"scan", "count"}
                   /\ \/ /\ i' = i + consumed'[Len(consumed')].n
                         /\ consumed'[Len(consumed')].n \in {1, 2}
                         /\ i' <= Len(argv)
                         /\ pc' = "count" <=> i' = Len(argv)
                      \/ /\ config.stops_at_last_pos
                         /\ i' = i /\ pc' = "count"
       /\ (pc = "count" /\ Running) =>
             /\ NothingConverted /\ i' = i /\ consumed' = consumed
             /\ exit_status' = -1 => pc' \in {"options", "pos_args", "returned"}
       /\ (pc = "options" /\ Running) =>
             /\ i' = i /\ consumed' = consumed
             /\ pos_args' = pos_args
             /\ \A n \in 1..Len(options) : n # k + 1 => options'[n] = options[n]
             /\ exit_status' = -1 =>
                   \/ pc' = "options" /\ k' = k + 1 /\ k' < Len(options)
                   \/ pc' \in {"pos_args", "returned"} /\ k + 1 = Len(options)
       /\ (pc = "pos_args" /\ Running) =>
             /\ i' = i /\ consumed' = consumed
             /\ options' = options
             /\ \A n \in 1..Len(pos_args) : n # k + 1 => pos_args'[n] = pos_args[n]
             /\ exit_status' = -1 =>
                   \/ pc' = "pos_args" /\ k' = k + 1 /\ k' < Len(pos_args)
                   \/ pc' = "returned" /\ k + 1 = Len(pos_args)]_vars

(* An option and its value used the two slots of argv in one step, and the
   call went on to validate and return. *)
C15_Witness ==
    /\ pc = "returned"
    /\ Len(argv) = 2 /\ i = 2
    /\ Len(consumed) = 1 /\ consumed[1].n = 2 /\ consumed[1].as = "option"


(* The token under the scan index is treated as positional: the terminator
   has been seen, or the token is not the terminator and begins with
   neither prefix. *)
PositionalToken ==
    /\ Scanning
    /\ \/ no_more_options_encountered
       \/ /\ Argv0(St) # Deref(config.no_more_options)
          /\ ~(Len(LongPrefix) > 0 /\ jvstr_starts_with(Argv0(St), LongPrefix))
          /\ ~(Len(ShortPrefix) > 0 /\ jvstr_starts_with(Argv0(St), ShortPrefix))

(* The number of tokens treated as positional so far. *)
PositionalsSeen ==
    Cardinality({ j \in 1..Len(consumed) : consumed[j].as = "positional" })

(* C16: the k-th token treated as positional is bound to the k-th
   positional descriptor, which was not bound before, and to no other;
   when every slot is filled the token goes to the overflow callback if
   there is one, and otherwise the parse exits with the
   unexpected-extra-argument error. *)
C16_KthPositional ==
    [][PositionalToken =>
          IF PositionalsSeen + 1 <= Len(pos_args)
          THEN /\ exit_status' = -1
               /\ ~pos_args[PositionalsSeen + 1].specified
               /\ pos_args'[PositionalsSeen + 1].specified
               /\ pos_args'[PositionalsSeen + 1].value = Ptr(Argv0(St))
               /\ \A n \in 1..Len(pos_args) :
                     n # PositionalsSeen + 1 => pos_args'[n] = pos_args[n]
               /\ calls' = calls
          ELSE IF config.action_extra_value
          THEN /\ exit_status' = -1
               /\ calls' = Append(calls, [fn |-> "action_extra_value",
                                          arg |-> Argv0(St)])
               /\ pos_args' = pos_args
          ELSE /\ exit_status' = 1 /\ message' = "UnexpectedExtraArgument"
               /\ pos_args' = pos_args /\ calls' = calls]_vars

(* The first positional token filled the only slot, the second went to the
   overflow callback, and the call returned. *)
C16_Witness ==
    /\ pc = "returned"
    /\ Len(pos_args) = 1 /\ pos_args[1].value = Ptr("a")
    /\ calls = << [fn |-> "action_extra_value", arg |-> "7"] >>


(* Two calls end in the same way: outcome, message, descriptors, callbacks. *)
SameEnd(a, b) ==
    /\ a.exit_status = b.exit_status /\ a.message = b.message
    /\ (a.pc = "returned") = (b.pc = "returned")
    /\ a.options = b.options /\ a.pos_args = b.pos_args
    /\ a.calls = b.calls

(* Tokens to put after the one that fills the last slot. *)
Tails ==
    { << >>, << "--help" >>, << "--jvcmd" >>, << "--no" >>, << "-q" >>,
      << "a" >>, << "--max" >>, << "-x", "a" >> }

(* C17: with stops_at_last_pos set, the token that fills the last
   positional slot ends the token pass at once, and the call ends in the
   same way whatever tokens follow it: none is classified, bound, passed
   to the overflow callback, or able to cause an exit. *)
C17_StopsAtLastPositional ==
    [][(PositionalToken /\ config.stops_at_last_pos
        /\ PositionalsSeen + 1 = Len(pos_args)) =>
          /\ exit_status' = -1 /\ pc' = "count"
          /\ pos_args'[Len(pos_args)].value = Ptr(Argv0(St))
          /\ \A tail \in Tails :
                SameEnd(Run(St),
                        Run([St EXCEPT !.argv = SubSeq(@, 1, i + 1) \o tail]))]_vars

(* The only slot was filled by the first token and the call returned,
   though the next token asks for help. *)
C17_Witness ==
    /\ pc = "returned" /\ config.stops_at_last_pos /\ ~config.no_help
    /\ Len(argv) = 2 /\ argv[2] = "--help"
    /\ Len(consumed) = 1
    /\ pos_args[Len(pos_args)].value = Ptr(argv[1])


(* C18: when the token pass has ended, the parse exits with the
   too-few-positional-arguments error exactly when fewer tokens were
   treated as positional (overflow tokens included) than
   nb_pos_args_required; a call that returns was given at least that many. *)
C18_TooFewPositionals ==
    [][/\ (pc = "count" /\ Running) =>
             IF PositionalsSeen < config.nb_pos_args_required
             THEN exit_status' = 1 /\ message' = "TooFewPositionalArguments"
             ELSE exit_status' = -1 /\ message' = message
       /\ message' = "TooFewPositionalArguments" =>
             PositionalsSeen < config.nb_pos_args_required
       /\ pc' = "returned" => PositionalsSeen' >= config'.nb_pos_args_required]_vars

(* Two positional tokens were required and given, the second one as
   overflow of the only slot, and the call returned. *)
C18_Witness ==
    /\ pc = "returned"
    /\ config.nb_pos_args_required = 2 /\ Len(pos_args) = 1
    /\ PositionalsSeen = 2 /\ Len(calls) = 1


(* The messages of jvcmd_exit_with_error. *)
ErrorKinds ==
    { "UnknownOption", "MissingOptionValue", "ChainedOptionNeedsValue",
      "MissingRequiredOption", "TooFewPositionalArguments",
      "UnexpectedExtraArgument", "InvalidEnumValue", "InvalidInteger",
      "IntegerOutOfRange", "FloatOutOfRange", "InvalidBoolean" }

(* The token under the scan index goes to the option matcher. *)
MatcherToken ==
    /\ Scanning /\ ~no_more_options_encountered
    /\ Argv0(St) # Deref(config.no_more_options)

(* The token that exited with status 0 is a built-in: the attribution
   keyword under the long prefix or, help not suppressed, help under the
   long prefix or h in a short run. *)
ExitedOnBuiltin ==
    /\ pc = "scan" /\ ~no_more_options_encountered
    /\ \/ message = "attribution" /\ argv[i + 1] = LongPrefix \o "jvcmd"
       \/ /\ message = "help" /\ ~config.no_help
          /\ \/ argv[i + 1] = LongPrefix \o "help"
             \/ /\ ~jvstr_starts_with(argv[i + 1], LongPrefix)
                /\ jvstr_starts_with(argv[i + 1], ShortPrefix)
                /\ \E j \in 1..Len(RunOf(argv[i + 1])) :
                      SubSeq(RunOf(argv[i + 1]), j, j) = "h"

(* C19: a call ends in exactly one of three ways: it returns, it exits
   with status 0, it exits with status 1.  Status 0 is only for the
   attribution keyword (active also when help is suppressed) and for help
   or h when help is not suppressed; every failure exits with status 1; a
   call that returns met none of these.  When help is suppressed, help and
   h are looked up among the declared options. *)
C19_ThreeOutcomes ==
    [][/\ Terminated(Run(St))
       /\ exit_status' \in {-1, 0, 1}
       /\ pc' = "returned" => exit_status' = -1 /\ message' = "none"
       /\ exit_status' = 0 => ExitedOnBuiltin'
       /\ exit_status' = 1 <=> message' \in ErrorKinds
       /\ (MatcherToken /\ Argv0(St) = LongPrefix \o "jvcmd") =>
             exit_status' = 0 /\ message' = "attribution"
       /\ (MatcherToken /\ Argv0(St) \in {LongPrefix \o "help", ShortPrefix \o "h"}) =>
             IF ~config.no_help THEN exit_status' = 0 /\ message' = "help"
             ELSE IF Argv0(St) = LongPrefix \o "help"
             THEN IF FirstByName(options, "help") = 0
                  THEN exit_status' = 1 /\ message' = "UnknownOption"
                  ELSE options'[FirstByName(options, "help")].specified
             ELSE IF FirstByShortName(options, "h") = 0
                  THEN exit_status' = 1 /\ message' = "UnknownOption"
                  ELSE options'[FirstByShortName(options, "h")].specified]_vars

(* With help suppressed, the attribution keyword exited with status 0. *)
C19_Witness ==
    /\ config.no_help
    /\ exit_status = 0 /\ message = "attribution"
    /\ argv[i + 1] = "--jvcmd"


(* The converted fields of d are those of its raw value, by the tables
   written out by hand. *)
ConvertedAsDeclared(d) ==
    /\ (d.is_int /\ Deref(d.value) \in DOMAIN IntLiterals)
          => d.as_int = IntLiterals[Deref(d.value)]
    /\ d.is_bool
          => /\ Deref(d.value) \in TrueSynonyms \cup FalseSynonyms
             /\ d.as_bool = (Deref(d.value) \in TrueSynonyms)
    /\ d.allowed_values = Ptr("add sub mult div")
          => Deref(d.value) \in CalcOperations

(* C20: the callback of a descriptor runs in that descriptor's validation
   and nowhere else, exactly when the descriptor has a callback, is
   specified (given or defaulted) and all its checks have passed, its
   converted fields being written; so at most once per descriptor, never
   for a descriptor left unspecified, and never after a fatal error. *)
C20_ActionCallback ==
    [][/\ Converting =>
             IF Cur.action /\ exit_status' = -1 /\ CurAfter.specified
             THEN /\ calls' = Append(calls, [fn |-> "action", arg |-> Cur.name])
                  /\ ConvertedAsDeclared(CurAfter)
             ELSE calls' = calls
       /\ ~Converting => NothingConverted
       /\ calls' # calls => exit_status = -1 /\ exit_status' = -1
       /\ \A a, b \in 1..Len(calls') :
             (calls'[a].fn = "action" /\ calls'[a] = calls'[b]) => a = b]_vars

(* The positional argument was given a true synonym, converted, and its
   callback ran once; the unspecified option had none run. *)
C20_Witness ==
    /\ pc = "returned"
    /\ pos_args[1].is_bool /\ pos_args[1].value = Ptr("yes") /\ pos_args[1].as_bool
    /\ calls = << [fn |-> "action", arg |-> pos_args[1].name] >>

(* The descriptors in the order of their validation: the options, then the
   positional arguments. *)
Descriptors == options \o pos_args

(* The number of descriptors check_convert_value has returned for. *)
Validated ==
    CASE pc \in {"start", "scan", "count"} -> 0
      [] pc = "options" -> k
      [] pc = "pos_args" -> Len(options) + k
      [] pc = "returned" -> Len(options) + Len(pos_args)

(* d has gone through check_convert_value: its default applied, required
   tested, its value converted as declared. *)
Through(d) ==
    /\ (d.need_value /\ d.default_value # NULL) => d.specified
    /\ d.required => d.specified
    /\ d.specified => ConvertedAsDeclared(d)

(* C21 as stated: no caller code runs while the descriptors are partially
   parsed: whenever a callback runs or the call returns, the token pass is
   finished and every declared descriptor has gone through default
   application and conversion. *)
C21_NeverPartiallyParsed ==
    [][(Len(calls') > Len(calls) \/ pc' = "returned") =>
          /\ pc \notin {"start", "scan"}
          /\ Validated + (IF Converting THEN 1 ELSE 0) = Len(Descriptors)]_vars

(* C21: the caller's code runs at three kinds of points and only the return
   sees every descriptor parsed: the overflow callback runs inside the
   token pass, on the token under the index, before any descriptor is
   converted; the callback of a descriptor runs when that descriptor and
   those before it in validation order have gone through default
   application and conversion, the later ones being untouched by the
   validation; when the call returns the token pass is finished and every
   declared descriptor has gone through default application and
   conversion. *)
C21_HandOverPoints ==
    [][/\ Len(calls') > Len(calls) =>
             /\ calls' = Append(calls, calls'[Len(calls')])
             /\ exit_status' = -1
             /\ IF calls'[Len(calls')].fn = "action_extra_value"
                THEN /\ PositionalToken /\ argument_pos >= Len(pos_args)
                     /\ calls'[Len(calls')].arg = Argv0(St)
                     /\ \A n \in 1..Len(Descriptors) :
                           Converted(Descriptors'[n]) = Converted(ZeroArg)
                ELSE /\ Converting /\ Cur.action
                     /\ calls'[Len(calls')].arg = Cur.name
                     /\ \A n \in 1..Len(Descriptors) :
                           IF n <= Validated + 1
                           THEN Through(Descriptors'[n])
                           ELSE /\ Descriptors'[n] = Descriptors[n]
                                /\ Converted(Descriptors[n]) = Converted(ZeroArg)
       /\ pc' = "returned" =>
             /\ pc \in {"count", "options", "pos_args"}
             /\ i' = Len(argv') \/ config.stops_at_last_pos
             /\ \A n \in 1..Len(Descriptors) : Through(Descriptors'[n])]_vars

(* The callback of the first option has run while a later option and the
   positional argument still wait for their defaults. *)
C21_Witness ==
    /\ pc = "options" /\ k = 1 /\ exit_status = -1
    /\ calls = << [fn |-> "action", arg |-> options[1].name] >>
    /\ options[3].default_value # NULL /\ ~options[3].specified
    /\ pos_args[1].default_value # NULL /\ ~pos_args[1].specified

(* The token under the scan index goes to check_long_options and begins
   with the long prefix; its bare name is what follows the prefix. *)
LongToken ==
    /\ MatcherToken
    /\ Len(LongPrefix) > 0 /\ jvstr_starts_with(Argv0(St), LongPrefix)

BareName == SubSeq(Argv0(St), Len(LongPrefix) + 1, Len(Argv0(St)))

(* The names check_long_options tests before the declared names. *)
BuiltinLong(name) == name = "jvcmd" \/ (~config.no_help /\ name = "help")

(* The step changes no descriptor but option n (n = 0: none at all), and
   leaves the positional cursor where it is. *)
OnlyOption(n) ==
    /\ \A m \in 1..Len(options) : m # n => options'[m] = options[m]
    /\ pos_args' = pos_args
    /\ argument_pos' = argument_pos

(* The step matched option n as the long matcher does: n is marked; with
   need_value the next token, whatever it is, is the value and two slots
   are used, or the call exits when there is none; without, the value is
   the empty string and one slot is used. *)
LongMatched(n) ==
    /\ options'[n].specified
    /\ OnlyOption(n)
    /\ IF options[n].need_value
       THEN IF i + 2 > Len(argv)
            THEN exit_status' = 1 /\ message' = "MissingOptionValue"
            ELSE /\ exit_status' = -1
                 /\ options'[n].value = Ptr(argv[i + 2])
                 /\ i' = i + 2
                 /\ LastUse(St').n = 2 /\ LastUse(St').as = "option"
       ELSE /\ exit_status' = -1
            /\ options'[n].value = Ptr("")
            /\ i' = i + 1
            /\ LastUse(St').n = 1 /\ LastUse(St').as = "option"

(* The step refused the token as an unknown option: no descriptor changed,
   the token was not bound as a positional argument. *)
LongUnknown ==
    /\ exit_status' = 1 /\ message' = "UnknownOption"
    /\ options' = options /\ OnlyOption(0)
    /\ LastUse(St').as = "option"

(* C22 as stated: a long-prefixed token whose bare name equals a declared
   long name marks that option, takes the next token as its value when it
   needs one (two slots, fatal when there is none) and the empty string
   otherwise (one slot); one that matches no declared name and no built-in
   is a fatal unknown option. *)
C22_DeclaredLongName ==
    [][LongToken =>
          IF \E n \in 1..Len(options) : options[n].name = BareName
          THEN \A n \in 1..Len(options) : options[n].name = BareName => LongMatched(n)
          ELSE ~BuiltinLong(BareName) => LongUnknown]_vars

(* C22: a long-prefixed token whose bare name is not a built-in in force
   (jvcmd, and help unless suppressed) and equals a declared long name
   marks the first option of that name, takes the next token as its value
   when it needs one, whatever that token looks like (two slots, fatal
   when there is none), and the empty string otherwise (one slot); one
   that matches no declared name and no built-in is a fatal unknown option
   and is not bound as a positional argument. *)
C22_LongOption ==
    [][LongToken =>
          IF BuiltinLong(BareName)
          THEN exit_status' = 0 /\ options' = options /\ OnlyOption(0)
          ELSE IF FirstByName(options, BareName) # 0
          THEN LongMatched(FirstByName(options, BareName))
          ELSE LongUnknown]_vars

(* The option with a value took the token --help as its value, two slots
   were used, and the call returned. *)
C22_Witness ==
    /\ pc = "returned"
    /\ Len(argv) = 2 /\ argv[1] = "--max" /\ argv[2] = "--help"
    /\ ~config.no_help
    /\ options[3].name = "max" /\ options[3].specified
    /\ options[3].value = Ptr("--help")
    /\ consumed = << [at |-> 0, n |-> 2, as |-> "option"] >>

(* The token under the scan index begins with a prefix that is in use (a
   prefix configured empty is disabled, lines 260 and 265). *)
Prefixed ==
    \/ Len(LongPrefix) > 0 /\ jvstr_starts_with(Argv0(St), LongPrefix)
    \/ Len(ShortPrefix) > 0 /\ jvstr_starts_with(Argv0(St), ShortPrefix)

(* The character c of a short run matches no declared short name (and is
   not the built-in help character): the loop of lines 222-248 finds no
   option for it. *)
UnknownShort(c) ==
    /\ ~(~config.no_help /\ c = "h")
    /\ FirstByShortName(options, c) = 0

(* The scan of the short run reaches its j-th character: every character
   before it names a declared flag. *)
ScanReaches(run, j) ==
    \A m \in 1..(j - 1) :
        /\ ~(~config.no_help /\ SubSeq(run, m, m) = "h")
        /\ FirstByShortName(options, SubSeq(run, m, m)) # 0
        /\ ~options[FirstByShortName(options, SubSeq(run, m, m))].need_value

(* The step used the token as an option, or exited in the matcher: no
   positional descriptor is bound, the cursor stays, no callback runs. *)
NotPositional ==
    /\ LastUse(St').as = "option"
    /\ pos_args' = pos_args /\ argument_pos' = argument_pos /\ calls' = calls

(* C23 as stated: before the terminator the matcher returns 0 only for a
   token that begins with neither prefix, a token that begins with a
   non-empty prefix is never bound as a positional argument, and a short
   run that contains a character matching no declared short name is a
   fatal unknown-option error. *)
C23_AnyUnknownCharIsFatal ==
    [][MatcherToken =>
          /\ (LastUse(St').as = "positional") <=> ~Prefixed
          /\ Prefixed => NotPositional
          /\ (/\ ShortRunToken
              /\ \E j \in 1..Len(RunOf(Argv0(St))) :
                    FirstByShortName(options, SubSeq(RunOf(Argv0(St)), j, j)) = 0)
                => exit_status' = 1 /\ message' = "UnknownOption"]_vars

(* C23: before the terminator the matcher returns 0 only for a token that
   begins with neither prefix, a token that begins with a non-empty prefix
   is never bound as a positional argument, and a short run is a fatal
   unknown-option error exactly when its scan reaches a character that
   matches no declared short name: the characters that follow an option
   with a value are that value and are not scanned. *)
C23_PrefixedNeverPositional ==
    [][MatcherToken =>
          /\ (LastUse(St').as = "positional") <=> ~Prefixed
          /\ Prefixed => NotPositional
          /\ ShortRunToken =>
                ((\E j \in 1..Len(RunOf(Argv0(St))) :
                      /\ ScanReaches(RunOf(Argv0(St)), j)
                      /\ UnknownShort(SubSeq(RunOf(Argv0(St)), j, j)))
                   <=> (exit_status' = 1 /\ message' = "UnknownOption"))]_vars

(* The token -q, with no option q declared, was refused as an unknown
   option and bound to no positional descriptor. *)
C23_Witness ==
    /\ exit_status = 1 /\ message = "UnknownOption"
    /\ pc = "scan" /\ argv[i + 1] = "-q"
    /\ config.short_options_prefix = Ptr("-")
    /\ \A n \in 1..Len(pos_args) : ~pos_args[n].specified /\ pos_args[n].value = NULL
    /\ LastUse(St).as = "option"

(* The step hands control to the caller: a callback runs in it, or the
   call returns at its end. *)
HandsOver == Len(calls') > Len(calls) \/ pc' = "returned"

(* C24: with the result fields zero at the call, wherever the caller can
   see a descriptor (in the overflow callback, in a descriptor's callback,
   after the return) its specified flag is set exactly when its raw value
   is not NULL, and a specified option that takes no value has the empty
   string as value. *)
C24_SpecifiedIffValue ==
    [][HandsOver =>
          /\ \A n \in 1..Len(Descriptors) :
                Descriptors'[n].specified <=> Descriptors'[n].value # NULL
          /\ \A n \in 1..Len(options) :
                (options'[n].specified /\ ~options'[n].need_value)
                   => options'[n].value = Ptr("")]_vars

(* The call returned with a flag given (value the empty string), the
   option with a value left out (value NULL) and a positional argument
   bound to its token. *)
C24_Witness ==
    /\ pc = "returned"
    /\ argv = << "-x", "a" >>
    /\ options[1].specified /\ options[1].value = Ptr("")
    /\ ~options[3].specified /\ options[3].value = NULL
    /\ pos_args[1].specified /\ pos_args[1].value = Ptr("a")

(* C25: the built-in names come before the declared ones.  Before the
   terminator a long token named jvcmd, or, help not suppressed, a long
   token named help or a short run whose scan reaches the character h,
   exits with status 0 and marks no option declared under that name; an h
   in what follows a first short option with a value is part of that value
   and shows no help. *)
C25_BuiltinPrecedence ==
    [][MatcherToken =>
          /\ (LongToken /\ BuiltinLong(BareName)) =>
                /\ exit_status' = 0
                /\ message' = IF BareName = "jvcmd" THEN "attribution" ELSE "help"
                /\ options' = options
          /\ (ShortRunToken /\ ~config.no_help) =>
                \A j \in 1..Len(RunOf(Argv0(St))) :
                    (/\ ScanReaches(RunOf(Argv0(St)), j)
                     /\ SubSeq(RunOf(Argv0(St)), j, j) = "h") =>
                        /\ exit_status' = 0 /\ message' = "help"
                        /\ \A n \in 1..Len(options) :
                              options[n].short_name = "h" => options'[n] = options[n]
          /\ ShortRunToken =>
                \A n \in Valued :
                    (/\ Len(RunOf(Argv0(St))) >= 2
                     /\ NamesShort(SubSeq(RunOf(Argv0(St)), 1, 1), n)) =>
                        /\ exit_status' = -1
                        /\ options'[n].specified
                        /\ options'[n].value =
                              Ptr(SubSeq(RunOf(Argv0(St)), 2, Len(RunOf(Argv0(St)))))]_vars

(* With help not suppressed and an option declared under the long name
   help, the token --help showed the help and left that option unmarked. *)
C25_Witness ==
    /\ exit_status = 0 /\ message = "help"
    /\ ~config.no_help
    /\ argv[i + 1] = "--help"
    /\ options[1].name = "help" /\ ~options[1].specified /\ options[1].value = NULL

(* C26: before the terminator, with short options enabled, a token that is
   the short prefix and nothing more (- under the default prefixes) uses
   one slot without error and changes no descriptor and not the
   positional cursor: it is neither bound as a positional argument nor
   refused as an unknown option. *)
C26_BarePrefixToken ==
    [][(ShortRunToken /\ Argv0(St) = ShortPrefix) =>
          /\ exit_status' = -1 /\ message' = "none"
          /\ i' = i + 1
          /\ consumed' = Append(consumed, [at |-> i, n |-> 1, as |-> "option"])
          /\ options' = options /\ pos_args' = pos_args
          /\ argument_pos' = argument_pos
          /\ calls' = calls
          /\ no_more_options_encountered' = no_more_options_encountered]_vars

(* The call whose only token was - returned with no descriptor specified
   and no positional argument counted. *)
C26_Witness ==
    /\ pc = "returned"
    /\ argv = << "-" >> /\ config.short_options_prefix = Ptr("-")
    /\ consumed = << [at |-> 0, n |-> 1, as |-> "option"] >>
    /\ argument_pos = 0
    /\ \A n \in 1..Len(options) : ~options[n].specified
    /\ \A n \in 1..Len(pos_args) : ~pos_args[n].specified

====
